---- MODULE Spec2Model ----
(***************************************************************************)
(* Goat Color Toolbox (src/GoatColorToolbox.js): the color value, its      *)
(* parser, setAlpha, the derivation operations, the serializers and the    *)
(* contrast ratio.                                                         *)
(*                                                                         *)
(* Numbers.  A JavaScript number is modelled as an exact rational          *)
(* <<n, d>> in lowest terms with d > 0; NaN is <<0, 0>>.  Arithmetic is    *)
(* that of the reals: the rounding of IEEE doubles, the sign of zero and   *)
(* the infinities are not modelled.                                        *)
(*                                                                         *)
(* Text.  A JavaScript string is a sequence of one-character strings, so   *)
(* that the regular expressions and parseFloat are modelled character by   *)
(* character.  A raw constructor argument is [kind |-> "null"] (null or    *)
(* undefined), [kind |-> "number"] (some non-string) or                    *)
(* [kind |-> "string", chars |-> <<...>>].                                 *)
(*                                                                         *)
(* A const of the source that is used more than once is a parameter of an  *)
(* operator named after the function and the const (parseHue_strValue is   *)
(* parseHue from the declaration of strValue on).                          *)
(***************************************************************************)
EXTENDS Integers, Sequences, FiniteSets, TLC

(***************************************************************************)
(* Bounds of the model.                                                    *)
(***************************************************************************)
\* the color objects a behaviour of SpecParse constructs
MaxParsed == 1

\* the color objects a behaviour of SpecPair constructs
MaxPair == 2

\* the color objects a behaviour of Spec holds, and the calls it makes
MaxColors == 2

MaxCalls == 3

\* the calls a behaviour of SpecMonochromatic makes
MaxMonoCalls == 4

\* the objects held under SpecFlatten: two constructed and one flattened
MaxFlattened == 3

\* the FileReader objects the editor creates
MaxReaders == 2

\* the handlers of the editor that run
MaxHandled == 5

\* the FileReader objects and the handlers under SpecItemColor: a pick, its read, two texts typed
MaxItemReaders == 1

MaxItemHandled == 4

\* the FileReader objects and the handlers under SpecPalette
MaxPaletteReaders == 1

MaxPaletteHandled == 4

(***************************************************************************)
(* Numbers.                                                                *)
(***************************************************************************)
NaN == <<0, 0>>

IsNaN(x) == x[2] = 0

Abs(n) == IF n < 0 THEN -n ELSE n

RECURSIVE GCD(_, _)
GCD(a, b) == IF b = 0 THEN a ELSE GCD(b, a % b)

\* n/d by their common divisor g
Reduce(n, d, g) == <<n \div g, d \div g>>

\* the rational n/d (d >= 0) in lowest terms; n/0 is NaN
Rat(n, d) == IF d = 0 THEN NaN ELSE Reduce(n, d, GCD(Abs(n), d))

Num(n) == <<n, 1>>

RNeg(x) == <<-x[1], x[2]>>

\* Math.abs
RAbs(x) == IF x[1] < 0 THEN RNeg(x) ELSE x

\* x + y over the least common denominator, g the common divisor of the denominators
RAdd_g(x, y, g) ==
    IF g = 0 THEN NaN
    ELSE Rat(x[1] * (y[2] \div g) + y[1] * (x[2] \div g), (x[2] \div g) * y[2])

RAdd(x, y) == RAdd_g(x, y, GCD(x[2], y[2]))

RSub(x, y) == RAdd(x, RNeg(y))

\* x * y, cancelled crosswise first
RMul_g(x, y, g1, g2) ==
    IF g1 = 0 \/ g2 = 0 THEN NaN
    ELSE <<(x[1] \div g1) * (y[1] \div g2), (x[2] \div g2) * (y[2] \div g1)>>

RMul(x, y) == RMul_g(x, y, GCD(Abs(x[1]), y[2]), GCD(Abs(y[1]), x[2]))

\* 1 / y; 1/0 is NaN here (the infinities are not modelled)
RInv(y) == IF y[1] > 0 THEN <<y[2], y[1]>> ELSE IF y[1] < 0 THEN <<-y[2], -y[1]>> ELSE NaN

RDiv(x, y) == RMul(x, RInv(y))

\* the comparisons of JavaScript: false when an operand is NaN
RLt(x, y) == x[1] * y[2] < y[1] * x[2]

RLe(x, y) == x[2] # 0 /\ y[2] # 0 /\ x[1] * y[2] <= y[1] * x[2]

\* Math.min, Math.max: NaN when an operand is NaN
MathMin(x, y) == IF x[2] = 0 \/ y[2] = 0 THEN NaN ELSE IF RLt(y, x) THEN y ELSE x

MathMax(x, y) == IF x[2] = 0 \/ y[2] = 0 THEN NaN ELSE IF RLt(x, y) THEN y ELSE x

\* Math.round: the nearest integer, a half rounded up; NaN stays NaN
MathRound(x) == IF x[2] = 0 THEN NaN ELSE <<(2 * x[1] + x[2]) \div (2 * x[2]), 1>>

\* x % m of JavaScript for an integer m > 0: the sign follows the dividend
JsRem(x, m) ==
    IF x[2] = 0 THEN NaN
    ELSE IF x[1] >= 0 THEN Rat(x[1] % (m * x[2]), x[2])
    ELSE Rat(-((-x[1]) % (m * x[2])), x[2])

RECURSIVE Pow10(_)
Pow10(k) == IF k = 0 THEN 1 ELSE 10 * Pow10(k - 1)

(***************************************************************************)
(* Text.                                                                   *)
(***************************************************************************)
Digits == <<"0", "1", "2", "3", "4", "5", "6", "7", "8", "9">>

HexDigits == <<"0", "1", "2", "3", "4", "5", "6", "7", "8", "9", "a", "b", "c", "d", "e", "f">>

UpperCase == <<"A", "B", "C", "D", "E", "F", "G", "H", "I", "J", "K", "L", "M",
               "N", "O", "P", "Q", "R", "S", "T", "U", "V", "W", "X", "Y", "Z">>

LowerCase == <<"a", "b", "c", "d", "e", "f", "g", "h", "i", "j", "k", "l", "m",
               "n", "o", "p", "q", "r", "s", "t", "u", "v", "w", "x", "y", "z">>

\* \d
DigitClass == {"0", "1", "2", "3", "4", "5", "6", "7", "8", "9"}

\* [a-f\d] under the i flag
HexClass == DigitClass \cup {"a", "b", "c", "d", "e", "f", "A", "B", "C", "D", "E", "F"}

\* the characters \s matches, of those the model's texts use
IsSpace(c) == c \in {" ", "\t"}

DigitVal(c) == (CHOOSE i \in 1..16 : HexDigits[i] = c) - 1

LowerChar(c) ==
    IF \E i \in 1..26 : UpperCase[i] = c
    THEN LowerCase[CHOOSE i \in 1..26 : UpperCase[i] = c]
    ELSE c

toLowerCase(s) == [i \in DOMAIN s |-> LowerChar(s[i])]

RECURSIVE SkipWs(_, _)
\* the index of the first character of s at or after i that is not white space
SkipWs(s, i) == IF i <= Len(s) /\ IsSpace(s[i]) THEN SkipWs(s, i + 1) ELSE i

RECURSIVE SkipWsBack(_, _)
SkipWsBack(s, j) == IF j >= 1 /\ IsSpace(s[j]) THEN SkipWsBack(s, j - 1) ELSE j

trim(s) == SubSeq(s, SkipWs(s, 1), SkipWsBack(s, Len(s)))

RECURSIVE ScanClass(_, _, _)
\* the index after the longest run of characters of class cls starting at i
ScanClass(s, i, cls) ==
    IF i <= Len(s) /\ s[i] \in cls THEN ScanClass(s, i + 1, cls) ELSE i

RECURSIVE DigitsValue(_, _, _, _)
\* the value in the given base of the digits s[i..j-1]
DigitsValue(s, i, j, base) ==
    IF j <= i THEN 0 ELSE DigitsValue(s, i, j - 1, base) * base + DigitVal(s[j - 1])

At(s, i) == IF i >= 1 /\ i <= Len(s) THEN s[i] ELSE ""

\* the value of a capture group that did not take part in the match
Undefined == <<"undefined">>

\* String.prototype.endsWith("%") behind a typeof check
isPercentage(str) == str # Undefined /\ Len(str) > 0 /\ str[Len(str)] = "%"

\* man * 10^(-k)
parseFloat_scale(man, k) ==
    IF k >= 0 THEN Rat(man, Pow10(k)) ELSE <<man * Pow10(-k), 1>>

\* the exponent digits s[e1..], negated if neg; 0 when there are none
parseFloat_exponentDigits(s, neg, e1) ==
    IF neg THEN -DigitsValue(s, e1, ScanClass(s, e1, DigitClass), 10)
    ELSE DigitsValue(s, e1, ScanClass(s, e1, DigitClass), 10)

\* the exponent part at e0: e or E, a sign, digits; 0 when there is none
parseFloat_exponent(s, e0) ==
    IF At(s, e0) \notin {"e", "E"} THEN 0
    ELSE parseFloat_exponentDigits(s, At(s, e0 + 1) = "-",
                                   IF At(s, e0 + 1) \in {"+", "-"} THEN e0 + 2 ELSE e0 + 1)

\* the digits s[i1..ip-1] and the nFrc digits s[ip+1..fp-1] after the point
parseFloat_fraction(s, i1, ip, fp, nFrc) ==
    parseFloat_scale(DigitsValue(s, i1, ip, 10) * Pow10(nFrc) + DigitsValue(s, ip + 1, fp, 10),
                     nFrc - parseFloat_exponent(s, fp))

\* fp is the index after the fraction, ip if there is no point at ip
parseFloat_digits(s, i1, ip, fp) ==
    IF ip = i1 /\ fp <= ip + 1 THEN NaN
    ELSE parseFloat_fraction(s, i1, ip, fp, IF fp > ip THEN fp - ip - 1 ELSE 0)

parseFloat_point(s, i1, ip) ==
    parseFloat_digits(s, i1, ip,
                      IF At(s, ip) = "." THEN ScanClass(s, ip + 1, DigitClass) ELSE ip)

parseFloat_magnitude(s, i1) == parseFloat_point(s, i1, ScanClass(s, i1, DigitClass))

parseFloat_signed(neg, mag) == IF neg THEN RNeg(mag) ELSE mag

parseFloat_sign(s, i0) ==
    parseFloat_signed(At(s, i0) = "-",
                      parseFloat_magnitude(s, IF At(s, i0) \in {"+", "-"} THEN i0 + 1 ELSE i0))

\* parseFloat: the longest prefix [ws][sign]digits[.digits][e[sign]digits], else NaN
parseFloat(s) == IF s = Undefined THEN NaN ELSE parseFloat_sign(s, SkipWs(s, 1))

(***************************************************************************)
(* Completions.  A helper that can throw returns a completion: either a    *)
(* value or a thrown Error with its message.                               *)
(***************************************************************************)
Return(v) == [throw |-> FALSE, value |-> v, message |-> ""]

Throw(msg) == [throw |-> TRUE, value |-> NaN, message |-> msg]

null == "null"

ALPHA_STYLE_HINT_PERCENT == "percent"

ALPHA_STYLE_HINT_NUMBER == "number"

\* Math.PI, to the precision of the rational 355/113
MathPI == <<355, 113>>

(***************************************************************************)
(* The numeric helpers of the parser.                                      *)
(***************************************************************************)
clamp(value, min, max) == MathMax(min, MathMin(value, max))

parseCssNumber_strValue(strValue, maxIfPercent) ==
    IF isPercentage(strValue)
    THEN clamp(RMul(RDiv(parseFloat(strValue), Num(100)), maxIfPercent), Num(0), maxIfPercent)
    ELSE clamp(parseFloat(strValue), Num(0), maxIfPercent)

parseCssNumber(value, maxIfPercent) == parseCssNumber_strValue(value, maxIfPercent)

\* strValue.replace(/[\d.+\-eE]/g, "")
RECURSIVE StripNumberChars(_)
StripNumberChars(s) ==
    IF s = <<>> THEN <<>>
    ELSE IF Head(s) \in DigitClass \cup {".", "+", "-", "e", "E"}
         THEN StripNumberChars(Tail(s))
         ELSE <<Head(s)>> \o StripNumberChars(Tail(s))

\* a normalisation that mirrors a negative remainder instead of adding a turn
parseHue_normalizedHue_mirrored(normalizedHue) ==
    IF RLt(normalizedHue, Num(0)) THEN RNeg(normalizedHue) ELSE normalizedHue

parseHue_normalizedHue(normalizedHue) ==
    IF RLt(normalizedHue, Num(0)) THEN RAdd(normalizedHue, Num(360)) ELSE normalizedHue

parseHue_degreesValue(degreesValue) == parseHue_normalizedHue(JsRem(degreesValue, 360))

parseHue_unitsPart(numValue, unitsPart) ==
    IF IsNaN(numValue) THEN Num(0)
    ELSE IF unitsPart \notin {<<"d", "e", "g">>, <<"°">>, <<>>, <<"r", "a", "d">>,
                              <<"g", "r", "a", "d">>, <<"t", "u", "r", "n">>}
    THEN Num(0)
    ELSE parseHue_degreesValue(
             IF unitsPart = <<"r", "a", "d">> THEN RDiv(RMul(numValue, Num(180)), MathPI)
             ELSE IF unitsPart = <<"g", "r", "a", "d">> THEN RMul(numValue, <<9, 10>>)
             ELSE IF unitsPart = <<"t", "u", "r", "n">> THEN RMul(numValue, Num(360))
             ELSE numValue)

parseHue_strValue(strValue) ==
    parseHue_unitsPart(parseFloat(strValue), toLowerCase(trim(StripNumberChars(strValue))))

parseHue(value) == parseHue_strValue(trim(toLowerCase(value)))

parseHslPercentage_percValue(percValue) ==
    IF IsNaN(percValue)
    THEN Throw("Invalid HSL saturation/lightness percentage value: Not a number before '%'.")
    ELSE Return(clamp(percValue, Num(0), Num(100)))

\* a parser that does not require the % unit
parseHslPercentage_strValue_lenient(strValue) ==
    parseHslPercentage_percValue(parseFloat(strValue))

parseHslPercentage_strValue(strValue) ==
    IF ~isPercentage(strValue)
    THEN Throw("Invalid HSL saturation/lightness value: '%' unit is required.")
    ELSE parseHslPercentage_percValue(parseFloat(strValue))

parseHslPercentage(value) == parseHslPercentage_strValue(trim(value))

\* a parser that reads a percentage as it reads a bare number
parseAlpha_strValue_unitless(strValue) ==
    IF strValue = <<>> THEN [value |-> Num(1), styleHint |-> null]
    ELSE [value |-> clamp(parseFloat(strValue), Num(0), Num(1)),
          styleHint |-> ALPHA_STYLE_HINT_NUMBER]

parseAlpha_strValue(strValue) ==
    IF strValue = <<>> THEN [value |-> Num(1), styleHint |-> null]
    ELSE IF isPercentage(strValue)
    THEN [value |-> RDiv(clamp(parseFloat(strValue), Num(0), Num(100)), Num(100)),
          styleHint |-> ALPHA_STYLE_HINT_PERCENT]
    ELSE [value |-> clamp(parseFloat(strValue), Num(0), Num(1)),
          styleHint |-> ALPHA_STYLE_HINT_NUMBER]

parseAlpha(value) ==
    IF value = Undefined THEN [value |-> Num(1), styleHint |-> null]
    ELSE parseAlpha_strValue(trim(value))

\* Number.prototype.toString(16).padStart(2, "0") of an integer in 0..255, or of NaN
toHexPart_rounded(n) ==
    IF IsNaN(n) THEN <<"N", "a", "N">>
    ELSE <<HexDigits[(n[1] \div 16) + 1], HexDigits[(n[1] % 16) + 1]>>

toHexPart(value) == toHexPart_rounded(MathRound(clamp(value, Num(0), Num(255))))

hueToRgb_t(p, q, t) ==
    IF RLt(t, <<1, 6>>) THEN RAdd(p, RMul(RMul(RSub(q, p), Num(6)), t))
    ELSE IF RLt(t, <<1, 2>>) THEN q
    ELSE IF RLt(t, <<2, 3>>) THEN RAdd(p, RMul(RMul(RSub(q, p), RSub(<<2, 3>>, t)), Num(6)))
    ELSE p

\* if (t > 1) t -= 1
hueToRgb_above(p, q, t) == hueToRgb_t(p, q, IF RLt(Num(1), t) THEN RSub(t, Num(1)) ELSE t)

\* if (t < 0) t += 1
hueToRgb(p, q, t) == hueToRgb_above(p, q, IF RLt(t, Num(0)) THEN RAdd(t, Num(1)) ELSE t)

hslToRgb_p(h, p, q) ==
    [r |-> MathRound(RMul(hueToRgb(p, q, RAdd(h, <<1, 3>>)), Num(255))),
     g |-> MathRound(RMul(hueToRgb(p, q, h), Num(255))),
     b |-> MathRound(RMul(hueToRgb(p, q, RSub(h, <<1, 3>>)), Num(255)))]

hslToRgb_q(h, l, q) == hslToRgb_p(h, RSub(RMul(Num(2), l), q), q)

hslToRgb_gray(gray) == [r |-> gray, g |-> gray, b |-> gray]

hslToRgb_l(h, s, l) ==
    IF s = Num(0) THEN hslToRgb_gray(MathRound(RMul(l, Num(255))))
    ELSE hslToRgb_q(h, l, IF RLt(l, <<1, 2>>) THEN RMul(l, RAdd(Num(1), s))
                          ELSE RSub(RAdd(l, s), RMul(l, s)))

hslToRgb(h, s, l) ==
    hslToRgb_l(RDiv(JsRem(RAdd(JsRem(h, 360), Num(360)), 360), Num(360)),
               RDiv(clamp(s, Num(0), Num(100)), Num(100)),
               RDiv(clamp(l, Num(0), Num(100)), Num(100)))


(***************************************************************************)
(* The OKLCH -> sRGB chain of the parser.  Its trigonometry, cubes and     *)
(* matrix products are computed in fixed point, six decimals (FixOne       *)
(* units), the matrix coefficients rounded to six decimals; the encoded    *)
(* channel can differ by 1 from the one IEEE doubles give.                 *)
(***************************************************************************)
FixOne == Pow10(6)

\* floor(rem * FixOne / den), the common divisor g of den and FixOne taken out first
ToFix_g(rem, den, g) == (rem * (FixOne \div g)) \div (den \div g)

\* floor(x * FixOne) of a rational x >= 0, NaN excluded
ToFix(x) == (x[1] \div x[2]) * FixOne + ToFix_g(x[1] % x[2], x[2], GCD(x[2], FixOne))

\* the product of xh.xl and yh.yl, each in thousands, in parts that stay within 32 bits
FixMul_m(xh, xl, yh, yl) == xh * yh + (xh * yl + xl * yh) \div 1000 + (xl * yl) \div FixOne

FixMul_abs(x, y) == FixMul_m(x \div 1000, x % 1000, y \div 1000, y % 1000)

FixMul_signed(neg, m) == IF neg THEN -m ELSE m

\* the product of two fixed-point numbers
FixMul(a, b) == FixMul_signed((a < 0) # (b < 0), FixMul_abs(Abs(a), Abs(b)))

\* Math.PI, fixed point
FixPI == 3 * FixOne + 141593

SinSmall_x7(x, x2, x3, x5, x7) ==
    x - x3 \div 6 + x5 \div 120 - x7 \div 5040 + FixMul(x7, x2) \div 362880

SinSmall_x5(x, x2, x3, x5) == SinSmall_x7(x, x2, x3, x5, FixMul(x5, x2))

SinSmall_x3(x, x2, x3) == SinSmall_x5(x, x2, x3, FixMul(x3, x2))

SinSmall_x2(x, x2) == SinSmall_x3(x, x2, FixMul(x2, x))

\* Math.sin(x) for x in [0, PI/4], by its Taylor polynomial
SinSmall(x) == SinSmall_x2(x, FixMul(x, x))

CosSmall_x6(x2, x4, x6) ==
    FixOne - x2 \div 2 + x4 \div 24 - x6 \div 720 + FixMul(x4, x4) \div 40320

CosSmall_x4(x2, x4) == CosSmall_x6(x2, x4, FixMul(x4, x2))

CosSmall_x2(x2) == CosSmall_x4(x2, FixMul(x2, x2))

\* Math.cos(x) for x in [0, PI/4], by its Taylor polynomial
CosSmall(x) == CosSmall_x2(FixMul(x, x))

CosSinQuadrant_pair(swap, c, s) == IF swap THEN <<s, c>> ELSE <<c, s>>

CosSinQuadrant_small(swap, y) == CosSinQuadrant_pair(swap, CosSmall(y), SinSmall(y))

\* <<cos x, sin x>> for x in [0, PI/2]: by the complement of x beyond PI/4
CosSinQuadrant(x) ==
    CosSinQuadrant_small(x > FixPI \div 4, IF x > FixPI \div 4 THEN FixPI \div 2 - x ELSE x)

CosSin_signed(k, q) ==
    IF k = 1 THEN q
    ELSE IF k = 2 THEN <<-q[1], q[2]>>
    ELSE IF k = 3 THEN <<-q[1], -q[2]>>
    ELSE <<q[1], -q[2]>>

\* <<Math.cos(x), Math.sin(x)>> for x in [0, 2 PI]: by quadrant
CosSin(x) ==
    CosSin_signed(IF x <= FixPI \div 2 THEN 1 ELSE IF x <= FixPI THEN 2
                  ELSE IF x <= FixPI + FixPI \div 2 THEN 3 ELSE 4,
                  CosSinQuadrant(IF x <= FixPI \div 2 THEN x
                                 ELSE IF x <= FixPI THEN FixPI - x
                                 ELSE IF x <= FixPI + FixPI \div 2 THEN x - FixPI
                                 ELSE IF 2 * FixPI - x < 0 THEN 0 ELSE 2 * FixPI - x))

OKLAB_LAB_TO_LMS_P_MATRIX ==
    <<<<1000000, 396338, 215804>>,
      <<1000000, -105561, -63854>>,
      <<1000000, -89484, -1291486>>>>

OKLAB_LMS_CUBED_TO_XYZ_MATRIX ==
    <<<<1226880, -557815, 281391>>,
      <<-40576, 1112287, -71711>>,
      <<-76373, -421493, 1586162>>>>

XYZ_TO_SRGB_MATRIX ==
    <<<<3240970, -1537383, -498611>>,
      <<-969244, 1875968, 41555>>,
      <<55630, -203977, 1056972>>>>

multiplyMatrix(matrix, vector) ==
    [i \in 1..3 |-> FixMul(matrix[i][1], vector[1]) + FixMul(matrix[i][2], vector[2])
                      + FixMul(matrix[i][3], vector[3])]

\* for v in 1..255, the least linear value (fixed point) that linearToSrgb encodes as v or more:
\* the transfer function 12.92 c / 1.055 c^(1/2.4) - 0.055, clamped to [0,1], times 255, rounded
LinearToSrgbSteps ==
    <<
      152, 456, 759, 1063, 1366, 1670, 1973, 2277, 2580, 2884,
      3189, 3510, 3849, 4206, 4582, 4977, 5392, 5825, 6278, 6752,
      7245, 7759, 8294, 8849, 9425, 10023, 10643, 11284, 11947, 12632,
      13340, 14071, 14824, 15600, 16399, 17222, 18069, 18939, 19833, 20751,
      21694, 22661, 23653, 24670, 25711, 26778, 27871, 28989, 30132, 31302,
      32498, 33719, 34968, 36243, 37544, 38872, 40228, 41610, 43020, 44458,
      45923, 47415, 48936, 50485, 52062, 53667, 55301, 56964, 58655, 60376,
      62125, 63903, 65711, 67549, 69416, 71313, 73239, 75196, 77183, 79200,
      81248, 83326, 85435, 87575, 89745, 91947, 94180, 96444, 98740, 101067,
      103426, 105816, 108239, 110694, 113180, 115699, 118251, 120835, 123452, 126101,
      128783, 131499, 134247, 137029, 139844, 142692, 145574, 148490, 151439, 154423,
      157440, 160491, 163577, 166697, 169851, 173040, 176264, 179522, 182816, 186144,
      189507, 192906, 196340, 199809, 203314, 206854, 210430, 214042, 217689, 221373,
      225093, 228849, 232641, 236470, 240335, 244237, 248176, 252151, 256163, 260213,
      264299, 268423, 272583, 276782, 281017, 285291, 289602, 293950, 298337, 302761,
      307224, 311725, 316263, 320841, 325456, 330110, 334803, 339535, 344305, 349114,
      353962, 358849, 363775, 368741, 373745, 378790, 383873, 388996, 394159, 399362,
      404605, 409887, 415209, 420572, 425975, 431418, 436901, 442425, 447989, 453594,
      459239, 464926, 470653, 476421, 482230, 488081, 493972, 499905, 505879, 511895,
      517952, 524051, 530191, 536373, 542597, 548863, 555171, 561521, 567913, 574348,
      580825, 587344, 593905, 600510, 607157, 613846, 620579, 627354, 634172, 641033,
      647938, 654885, 661876, 668910, 675988, 683109, 690274, 697482, 704734, 712030,
      719369, 726753, 734181, 741652, 749168, 756728, 764333, 771982, 779675, 787413,
      795195, 803022, 810894, 818811, 826773, 834779, 842831, 850928, 859070, 867257,
      875490, 883768, 892091, 900460, 908875, 917335, 925841, 934393, 942991, 951635,
      960325, 969060, 977843, 986671, 995546
    >>

linearToSrgb(clin) == Num(Cardinality({v \in 1..255 : LinearToSrgbSteps[v] <= clin}))

parseOklchLightness_n(v, n) ==
    IF IsNaN(n) THEN Throw("Invalid OKLCH Lightness value.")
    ELSE IF isPercentage(v) THEN Return(clamp(n, Num(0), Num(100)))
    ELSE Return(clamp(RMul(n, Num(100)), Num(0), Num(100)))

parseOklchLightness(v) == parseOklchLightness_n(v, parseFloat(v))

\* clamp(x, 0, Infinity) is Math.max(0, x)
parseOklchChroma_n(v, n) ==
    IF IsNaN(n) THEN Throw("Invalid OKLCH Chroma value.")
    ELSE IF isPercentage(v) THEN Return(MathMax(Num(0), RMul(RDiv(n, Num(100)), <<2, 5>>)))
    ELSE Return(MathMax(Num(0), n))

parseOklchChroma(v) == parseOklchChroma_n(v, parseFloat(v))

\* Math.pow(x, 3) of the three components
Cubes(v) ==
    <<FixMul(FixMul(v[1], v[1]), v[1]), FixMul(FixMul(v[2], v[2]), v[2]),
      FixMul(FixMul(v[3], v[3]), v[3])>>

oklchToSrgb_lin(lin) ==
    [r |-> linearToSrgb(lin[1]), g |-> linearToSrgb(lin[2]), b |-> linearToSrgb(lin[3])]

\* [L_oklab_norm, a_oklab_comp, b_oklab_comp], cs the cosine and sine of H_rad
oklchToSrgb_comp(L_oklab_norm, C_oklch_val, cs) ==
    <<L_oklab_norm, FixMul(C_oklch_val, cs[1]), FixMul(C_oklch_val, cs[2])>>

\* lightness 0..100, chroma and hue in degrees to the three encoded channels
oklchToSrgb(l_val, c_val, h_val) ==
    oklchToSrgb_lin(
        multiplyMatrix(XYZ_TO_SRGB_MATRIX,
            multiplyMatrix(OKLAB_LMS_CUBED_TO_XYZ_MATRIX,
                Cubes(multiplyMatrix(OKLAB_LAB_TO_LMS_P_MATRIX,
                    oklchToSrgb_comp(ToFix(RDiv(l_val, Num(100))), ToFix(c_val),
                                     CosSin(FixMul(ToFix(h_val), FixPI) \div 180)))))))

(***************************************************************************)
(* The regular expressions.  A matcher is applied to the text and returns  *)
(* [matched, g], g the capture groups, Undefined for a group that took no  *)
(* part.  The expressions carry the i flag: letters match in either case   *)
(* and the groups keep the case of the text.  A match in progress is       *)
(* [ok, pos, g]: pos the index of the next character, g the groups so far. *)
(* The character classes exclude white space, "/", "," and ")", so every   *)
(* group is a maximal run of its class and the match is unique.            *)
(***************************************************************************)
NoMatch == [matched |-> FALSE, g |-> <<>>]

Fail == [ok |-> FALSE, pos |-> 0, g |-> <<>>]

\* [+\-\d.%]
NumClass == DigitClass \cup {"+", "-", ".", "%"}

\* [+\-\d.%a-z°] under the i flag
HueClass ==
    NumClass \cup {LowerCase[i] : i \in 1..26} \cup {UpperCase[i] : i \in 1..26} \cup {"°"}

\* ^name a? \(
Open(s, name, optA) ==
    IF Len(s) > Len(name) /\ toLowerCase(SubSeq(s, 1, Len(name))) = name
    THEN IF optA /\ LowerChar(s[Len(name) + 1]) = "a" /\ At(s, Len(name) + 2) = "("
         THEN [ok |-> TRUE, pos |-> Len(name) + 3, g |-> <<>>]
         ELSE IF s[Len(name) + 1] = "("
         THEN [ok |-> TRUE, pos |-> Len(name) + 2, g |-> <<>>]
         ELSE Fail
    ELSE Fail

\* \s*
Ws(s, m) == IF m.ok THEN [m EXCEPT !.pos = SkipWs(s, @)] ELSE m

\* \s+
Ws1(s, m) == IF m.ok /\ IsSpace(At(s, m.pos)) THEN [m EXCEPT !.pos = SkipWs(s, @)] ELSE Fail

\* a single character c
Lit(s, m, c) == IF m.ok /\ At(s, m.pos) = c THEN [m EXCEPT !.pos = @ + 1] ELSE Fail

\* the separator of two components: \s+ , or \s*,\s* in the legacy syntax
Sep(s, m, legacy) == IF legacy THEN Ws(s, Lit(s, Ws(s, m), ",")) ELSE Ws1(s, m)

Group_end(s, m, e) ==
    IF m.ok /\ e > m.pos
    THEN [ok |-> TRUE, pos |-> e, g |-> Append(m.g, SubSeq(s, m.pos, e - 1))]
    ELSE Fail

\* ([cls]+)
Group(s, m, cls) == Group_end(s, m, ScanClass(s, m.pos, cls))

\* the optional part, once it is known whether it is there and whether it opens with "/" or ","
OptAlpha_has(s, w, hasA, skip) ==
    IF ~w.ok THEN Fail
    ELSE IF hasA THEN Ws(s, Group(s, Ws(s, [w EXCEPT !.pos = @ + skip]), NumClass))
    ELSE [w EXCEPT !.g = Append(@, Undefined)]

\* \s*(?:[\/\s]\s*([+\-\d.%]+)\s*)? , in the legacy syntax \s*(?:,\s*([+\-\d.%]+)\s*)? ;
\* m is the match before the white space and w the match after it
OptAlpha(s, m, w, legacy) ==
    OptAlpha_has(s, w,
                 IF legacy THEN At(s, w.pos) = ","
                 ELSE At(s, w.pos) = "/" \/ (w.pos > m.pos /\ At(s, w.pos) \in NumClass),
                 IF At(s, w.pos) \in {",", "/"} THEN 1 ELSE 0)

OptAlpha_ws(s, m, legacy) == OptAlpha(s, m, Ws(s, m), legacy)

\* \)$
Close(s, m) ==
    IF m.ok /\ m.pos = Len(s) /\ s[m.pos] = ")" THEN [matched |-> TRUE, g |-> m.g] ELSE NoMatch

\* ^name a? \( \s* (c1+) SEP (c2+) SEP (c3+) \s* (?: ASEP \s* ([+\-\d.%]+) \s* )? \) $
\* optA tells whether the name may be followed by "a"
MatchFunction(s, name, optA, c1, c2, c3, legacy) ==
    Close(s, OptAlpha_ws(s, Group(s, Sep(s, Group(s, Sep(s, Group(s, Ws(s, Open(s, name, optA)),
                             c1), legacy), c2), legacy), c3), legacy))

CSS_RGB_REGEX(s) == MatchFunction(s, <<"r", "g", "b">>, TRUE, NumClass, NumClass, NumClass, FALSE)

CSS_RGB_LEGACY_REGEX(s) == MatchFunction(s, <<"r", "g", "b">>, TRUE, NumClass, NumClass, NumClass, TRUE)

CSS_HSL_REGEX(s) == MatchFunction(s, <<"h", "s", "l">>, TRUE, HueClass, NumClass, NumClass, FALSE)

CSS_HSL_LEGACY_REGEX(s) == MatchFunction(s, <<"h", "s", "l">>, TRUE, HueClass, NumClass, NumClass, TRUE)

CSS_OKLCH_REGEX(s) == MatchFunction(s, <<"o", "k", "l", "c", "h">>, FALSE, NumClass, NumClass, HueClass, FALSE)

\* the groups of the digits d, the text after the optional "#"
CSS_HEX_REGEX_digits(d, U) ==
    IF \E i \in DOMAIN d : d[i] \notin HexClass THEN NoMatch
    ELSE IF Len(d) = 3 THEN [matched |-> TRUE, g |-> <<<<d[1]>>, <<d[2]>>, <<d[3]>>, U, U, U, U, U>>]
    ELSE IF Len(d) = 4
    THEN [matched |-> TRUE, g |-> <<<<d[1]>>, <<d[2]>>, <<d[3]>>, <<d[4]>>, U, U, U, U>>]
    ELSE IF Len(d) = 6
    THEN [matched |-> TRUE, g |-> <<U, U, U, U, SubSeq(d, 1, 2), SubSeq(d, 3, 4), SubSeq(d, 5, 6), U>>]
    ELSE IF Len(d) = 8
    THEN [matched |-> TRUE,
          g |-> <<U, U, U, U, SubSeq(d, 1, 2), SubSeq(d, 3, 4), SubSeq(d, 5, 6), SubSeq(d, 7, 8)>>]
    ELSE NoMatch

\* ^#?(h)(h)(h)(h)?$|^#?(hh)(hh)(hh)(hh)?$ : groups 1..4 or groups 5..8
CSS_HEX_REGEX(s) == CSS_HEX_REGEX_digits(IF At(s, 1) = "#" THEN Tail(s) ELSE s, Undefined)

\* the groups of the digits d, the text after "0x"
CSS_HEX_LEGACY_NUM_REGEX_digits(d) ==
    IF \E i \in DOMAIN d : d[i] \notin HexClass THEN NoMatch
    ELSE IF Len(d) = 6
    THEN [matched |-> TRUE, g |-> <<Undefined, SubSeq(d, 1, 2), SubSeq(d, 3, 4), SubSeq(d, 5, 6)>>]
    ELSE IF Len(d) = 8
    THEN [matched |-> TRUE,
          g |-> <<SubSeq(d, 1, 2), SubSeq(d, 3, 4), SubSeq(d, 5, 6), SubSeq(d, 7, 8)>>]
    ELSE NoMatch

\* ^0x(?:(hh))?(hh)(hh)(hh)$
CSS_HEX_LEGACY_NUM_REGEX(s) ==
    IF Len(s) >= 2 /\ s[1] = "0" /\ LowerChar(s[2]) = "x"
    THEN CSS_HEX_LEGACY_NUM_REGEX_digits(SubSeq(s, 3, Len(s)))
    ELSE NoMatch

\* parseInt(text, 16) of a text of hex digits
parseInt16(s) == Num(DigitsValue(toLowerCase(s), 1, Len(s) + 1, 16))

\* m1 || m2 of two match results
Or(m1, m2) == IF m1.matched THEN m1 ELSE m2

\* the table of CSS color names: <<name, hex text>>
CSS_NAMED_COLORS ==
    {
      <<<<"a", "l", "i", "c", "e", "b", "l", "u", "e">>, <<"#", "f", "0", "f", "8", "f", "f">>>>,
      <<<<"a", "n", "t", "i", "q", "u", "e", "w", "h", "i", "t", "e">>, <<"#", "f", "a", "e", "b", "d", "7">>>>,
      <<<<"a", "q", "u", "a">>, <<"#", "0", "0", "f", "f", "f", "f">>>>,
      <<<<"a", "q", "u", "a", "m", "a", "r", "i", "n", "e">>, <<"#", "7", "f", "f", "f", "d", "4">>>>,
      <<<<"a", "z", "u", "r", "e">>, <<"#", "f", "0", "f", "f", "f", "f">>>>,
      <<<<"b", "e", "i", "g", "e">>, <<"#", "f", "5", "f", "5", "d", "c">>>>,
      <<<<"b", "i", "s", "q", "u", "e">>, <<"#", "f", "f", "e", "4", "c", "4">>>>,
      <<<<"b", "l", "a", "c", "k">>, <<"#", "0", "0", "0", "0", "0", "0">>>>,
      <<<<"b", "l", "a", "n", "c", "h", "e", "d", "a", "l", "m", "o", "n", "d">>, <<"#", "f", "f", "e", "b", "c", "d">>>>,
      <<<<"b", "l", "u", "e">>, <<"#", "0", "0", "0", "0", "f", "f">>>>,
      <<<<"b", "l", "u", "e", "v", "i", "o", "l", "e", "t">>, <<"#", "8", "a", "2", "b", "e", "2">>>>,
      <<<<"b", "r", "o", "w", "n">>, <<"#", "a", "5", "2", "a", "2", "a">>>>,
      <<<<"b", "u", "r", "l", "y", "w", "o", "o", "d">>, <<"#", "d", "e", "b", "8", "8", "7">>>>,
      <<<<"c", "a", "d", "e", "t", "b", "l", "u", "e">>, <<"#", "5", "f", "9", "e", "a", "0">>>>,
      <<<<"c", "h", "a", "r", "t", "r", "e", "u", "s", "e">>, <<"#", "7", "f", "f", "f", "0", "0">>>>,
      <<<<"c", "h", "o", "c", "o", "l", "a", "t", "e">>, <<"#", "d", "2", "6", "9", "1", "e">>>>,
      <<<<"c", "o", "r", "a", "l">>, <<"#", "f", "f", "7", "f", "5", "0">>>>,
      <<<<"c", "o", "r", "n", "f", "l", "o", "w", "e", "r", "b", "l", "u", "e">>, <<"#", "6", "4", "9", "5", "e", "d">>>>,
      <<<<"c", "o", "r", "n", "s", "i", "l", "k">>, <<"#", "f", "f", "f", "8", "d", "c">>>>,
      <<<<"c", "r", "i", "m", "s", "o", "n">>, <<"#", "d", "c", "1", "4", "3", "c">>>>,
      <<<<"c", "y", "a", "n">>, <<"#", "0", "0", "f", "f", "f", "f">>>>,
      <<<<"d", "a", "r", "k", "b", "l", "u", "e">>, <<"#", "0", "0", "0", "0", "8", "b">>>>,
      <<<<"d", "a", "r", "k", "c", "y", "a", "n">>, <<"#", "0", "0", "8", "b", "8", "b">>>>,
      <<<<"d", "a", "r", "k", "g", "o", "l", "d", "e", "n", "r", "o", "d">>, <<"#", "b", "8", "8", "6", "0", "b">>>>,
      <<<<"d", "a", "r", "k", "g", "r", "a", "y">>, <<"#", "a", "9", "a", "9", "a", "9">>>>,
      <<<<"d", "a", "r", "k", "g", "r", "e", "e", "n">>, <<"#", "0", "0", "6", "4", "0", "0">>>>,
      <<<<"d", "a", "r", "k", "g", "r", "e", "y">>, <<"#", "a", "9", "a", "9", "a", "9">>>>,
      <<<<"d", "a", "r", "k", "k", "h", "a", "k", "i">>, <<"#", "b", "d", "b", "7", "6", "b">>>>,
      <<<<"d", "a", "r", "k", "m", "a", "g", "e", "n", "t", "a">>, <<"#", "8", "b", "0", "0", "8", "b">>>>,
      <<<<"d", "a", "r", "k", "o", "l", "i", "v", "e", "g", "r", "e", "e", "n">>, <<"#", "5", "5", "6", "b", "2", "f">>>>,
      <<<<"d", "a", "r", "k", "o", "r", "a", "n", "g", "e">>, <<"#", "f", "f", "8", "c", "0", "0">>>>,
      <<<<"d", "a", "r", "k", "o", "r", "c", "h", "i", "d">>, <<"#", "9", "9", "3", "2", "c", "c">>>>,
      <<<<"d", "a", "r", "k", "r", "e", "d">>, <<"#", "8", "b", "0", "0", "0", "0">>>>,
      <<<<"d", "a", "r", "k", "s", "a", "l", "m", "o", "n">>, <<"#", "e", "9", "9", "6", "7", "a">>>>,
      <<<<"d", "a", "r", "k", "s", "e", "a", "g", "r", "e", "e", "n">>, <<"#", "8", "f", "b", "c", "8", "f">>>>,
      <<<<"d", "a", "r", "k", "s", "l", "a", "t", "e", "b", "l", "u", "e">>, <<"#", "4", "8", "3", "d", "8", "b">>>>,
      <<<<"d", "a", "r", "k", "s", "l", "a", "t", "e", "g", "r", "a", "y">>, <<"#", "2", "f", "4", "f", "4", "f">>>>,
      <<<<"d", "a", "r", "k", "s", "l", "a", "t", "e", "g", "r", "e", "y">>, <<"#", "2", "f", "4", "f", "4", "f">>>>,
      <<<<"d", "a", "r", "k", "t", "u", "r", "q", "u", "o", "i", "s", "e">>, <<"#", "0", "0", "c", "e", "d", "1">>>>,
      <<<<"d", "a", "r", "k", "v", "i", "o", "l", "e", "t">>, <<"#", "9", "4", "0", "0", "d", "3">>>>,
      <<<<"d", "e", "e", "p", "p", "i", "n", "k">>, <<"#", "f", "f", "1", "4", "9", "3">>>>,
      <<<<"d", "e", "e", "p", "s", "k", "y", "b", "l", "u", "e">>, <<"#", "0", "0", "b", "f", "f", "f">>>>,
      <<<<"d", "i", "m", "g", "r", "a", "y">>, <<"#", "6", "9", "6", "9", "6", "9">>>>,
      <<<<"d", "i", "m", "g", "r", "e", "y">>, <<"#", "6", "9", "6", "9", "6", "9">>>>,
      <<<<"d", "o", "d", "g", "e", "r", "b", "l", "u", "e">>, <<"#", "1", "e", "9", "0", "f", "f">>>>,
      <<<<"f", "i", "r", "e", "b", "r", "i", "c", "k">>, <<"#", "b", "2", "2", "2", "2", "2">>>>,
      <<<<"f", "l", "o", "r", "a", "l", "w", "h", "i", "t", "e">>, <<"#", "f", "f", "f", "a", "f", "0">>>>,
      <<<<"f", "o", "r", "e", "s", "t", "g", "r", "e", "e", "n">>, <<"#", "2", "2", "8", "b", "2", "2">>>>,
      <<<<"f", "u", "c", "h", "s", "i", "a">>, <<"#", "f", "f", "0", "0", "f", "f">>>>,
      <<<<"g", "a", "i", "n", "s", "b", "o", "r", "o">>, <<"#", "d", "c", "d", "c", "d", "c">>>>,
      <<<<"g", "h", "o", "s", "t", "w", "h", "i", "t", "e">>, <<"#", "f", "8", "f", "8", "f", "f">>>>,
      <<<<"g", "o", "l", "d">>, <<"#", "f", "f", "d", "7", "0", "0">>>>,
      <<<<"g", "o", "l", "d", "e", "n", "r", "o", "d">>, <<"#", "d", "a", "a", "5", "2", "0">>>>,
      <<<<"g", "r", "a", "y">>, <<"#", "8", "0", "8", "0", "8", "0">>>>,
      <<<<"g", "r", "e", "e", "n">>, <<"#", "0", "0", "8", "0", "0", "0">>>>,
      <<<<"g", "r", "e", "e", "n", "y", "e", "l", "l", "o", "w">>, <<"#", "a", "d", "f", "f", "2", "f">>>>,
      <<<<"g", "r", "e", "y">>, <<"#", "8", "0", "8", "0", "8", "0">>>>,
      <<<<"h", "o", "n", "e", "y", "d", "e", "w">>, <<"#", "f", "0", "f", "f", "f", "0">>>>,
      <<<<"h", "o", "t", "p", "i", "n", "k">>, <<"#", "f", "f", "6", "9", "b", "4">>>>,
      <<<<"i", "n", "d", "i", "a", "n", "r", "e", "d">>, <<"#", "c", "d", "5", "c", "5", "c">>>>,
      <<<<"i", "n", "d", "i", "g", "o">>, <<"#", "4", "b", "0", "0", "8", "2">>>>,
      <<<<"i", "v", "o", "r", "y">>, <<"#", "f", "f", "f", "f", "f", "0">>>>,
      <<<<"k", "h", "a", "k", "i">>, <<"#", "f", "0", "e", "6", "8", "c">>>>,
      <<<<"l", "a", "v", "e", "n", "d", "e", "r">>, <<"#", "e", "6", "e", "6", "f", "a">>>>,
      <<<<"l", "a", "v", "e", "n", "d", "e", "r", "b", "l", "u", "s", "h">>, <<"#", "f", "f", "f", "0", "f", "5">>>>,
      <<<<"l", "a", "w", "n", "g", "r", "e", "e", "n">>, <<"#", "7", "c", "f", "c", "0", "0">>>>,
      <<<<"l", "e", "m", "o", "n", "c", "h", "i", "f", "f", "o", "n">>, <<"#", "f", "f", "f", "a", "c", "d">>>>,
      <<<<"l", "i", "g", "h", "t", "b", "l", "u", "e">>, <<"#", "a", "d", "d", "8", "e", "6">>>>,
      <<<<"l", "i", "g", "h", "t", "c", "o", "r", "a", "l">>, <<"#", "f", "0", "8", "0", "8", "0">>>>,
      <<<<"l", "i", "g", "h", "t", "c", "y", "a", "n">>, <<"#", "e", "0", "f", "f", "f", "f">>>>,
      <<<<"l", "i", "g", "h", "t", "g", "o", "l", "d", "e", "n", "r", "o", "d", "y", "e", "l", "l", "o", "w">>, <<"#", "f", "a", "f", "a", "d", "2">>>>,
      <<<<"l", "i", "g", "h", "t", "g", "r", "a", "y">>, <<"#", "d", "3", "d", "3", "d", "3">>>>,
      <<<<"l", "i", "g", "h", "t", "g", "r", "e", "e", "n">>, <<"#", "9", "0", "e", "e", "9", "0">>>>,
      <<<<"l", "i", "g", "h", "t", "g", "r", "e", "y">>, <<"#", "d", "3", "d", "3", "d", "3">>>>,
      <<<<"l", "i", "g", "h", "t", "p", "i", "n", "k">>, <<"#", "f", "f", "b", "6", "c", "1">>>>,
      <<<<"l", "i", "g", "h", "t", "s", "a", "l", "m", "o", "n">>, <<"#", "f", "f", "a", "0", "7", "a">>>>,
      <<<<"l", "i", "g", "h", "t", "s", "e", "a", "g", "r", "e", "e", "n">>, <<"#", "2", "0", "b", "2", "a", "a">>>>,
      <<<<"l", "i", "g", "h", "t", "s", "k", "y", "b", "l", "u", "e">>, <<"#", "8", "7", "c", "e", "f", "a">>>>,
      <<<<"l", "i", "g", "h", "t", "s", "l", "a", "t", "e", "g", "r", "a", "y">>, <<"#", "7", "7", "8", "8", "9", "9">>>>,
      <<<<"l", "i", "g", "h", "t", "s", "l", "a", "t", "e", "g", "r", "e", "y">>, <<"#", "7", "7", "8", "8", "9", "9">>>>,
      <<<<"l", "i", "g", "h", "t", "s", "t", "e", "e", "l", "b", "l", "u", "e">>, <<"#", "b", "0", "c", "4", "d", "e">>>>,
      <<<<"l", "i", "g", "h", "t", "y", "e", "l", "l", "o", "w">>, <<"#", "f", "f", "f", "f", "e", "0">>>>,
      <<<<"l", "i", "m", "e">>, <<"#", "0", "0", "f", "f", "0", "0">>>>,
      <<<<"l", "i", "m", "e", "g", "r", "e", "e", "n">>, <<"#", "3", "2", "c", "d", "3", "2">>>>,
      <<<<"l", "i", "n", "e", "n">>, <<"#", "f", "a", "f", "0", "e", "6">>>>,
      <<<<"m", "a", "g", "e", "n", "t", "a">>, <<"#", "f", "f", "0", "0", "f", "f">>>>,
      <<<<"m", "a", "r", "o", "o", "n">>, <<"#", "8", "0", "0", "0", "0", "0">>>>,
      <<<<"m", "e", "d", "i", "u", "m", "a", "q", "u", "a", "m", "a", "r", "i", "n", "e">>, <<"#", "6", "6", "c", "d", "a", "a">>>>,
      <<<<"m", "e", "d", "i", "u", "m", "b", "l", "u", "e">>, <<"#", "0", "0", "0", "0", "c", "d">>>>,
      <<<<"m", "e", "d", "i", "u", "m", "o", "r", "c", "h", "i", "d">>, <<"#", "b", "a", "5", "5", "d", "3">>>>,
      <<<<"m", "e", "d", "i", "u", "m", "p", "u", "r", "p", "l", "e">>, <<"#", "9", "3", "7", "0", "d", "b">>>>,
      <<<<"m", "e", "d", "i", "u", "m", "s", "e", "a", "g", "r", "e", "e", "n">>, <<"#", "3", "c", "b", "3", "7", "1">>>>,
      <<<<"m", "e", "d", "i", "u", "m", "s", "l", "a", "t", "e", "b", "l", "u", "e">>, <<"#", "7", "b", "6", "8", "e", "e">>>>,
      <<<<"m", "e", "d", "i", "u", "m", "s", "p", "r", "i", "n", "g", "g", "r", "e", "e", "n">>, <<"#", "0", "0", "f", "a", "9", "a">>>>,
      <<<<"m", "e", "d", "i", "u", "m", "t", "u", "r", "q", "u", "o", "i", "s", "e">>, <<"#", "4", "8", "d", "1", "c", "c">>>>,
      <<<<"m", "e", "d", "i", "u", "m", "v", "i", "o", "l", "e", "t", "r", "e", "d">>, <<"#", "c", "7", "1", "5", "8", "5">>>>,
      <<<<"m", "i", "d", "n", "i", "g", "h", "t", "b", "l", "u", "e">>, <<"#", "1", "9", "1", "9", "7", "0">>>>,
      <<<<"m", "i", "n", "t", "c", "r", "e", "a", "m">>, <<"#", "f", "5", "f", "f", "f", "a">>>>,
      <<<<"m", "i", "s", "t", "y", "r", "o", "s", "e">>, <<"#", "f", "f", "e", "4", "e", "1">>>>,
      <<<<"m", "o", "c", "c", "a", "s", "i", "n">>, <<"#", "f", "f", "e", "4", "b", "5">>>>,
      <<<<"n", "a", "v", "a", "j", "o", "w", "h", "i", "t", "e">>, <<"#", "f", "f", "d", "e", "a", "d">>>>,
      <<<<"n", "a", "v", "y">>, <<"#", "0", "0", "0", "0", "8", "0">>>>,
      <<<<"o", "l", "d", "l", "a", "c", "e">>, <<"#", "f", "d", "f", "5", "e", "6">>>>,
      <<<<"o", "l", "i", "v", "e">>, <<"#", "8", "0", "8", "0", "0", "0">>>>,
      <<<<"o", "l", "i", "v", "e", "d", "r", "a", "b">>, <<"#", "6", "b", "8", "e", "2", "3">>>>,
      <<<<"o", "r", "a", "n", "g", "e">>, <<"#", "f", "f", "a", "5", "0", "0">>>>,
      <<<<"o", "r", "a", "n", "g", "e", "r", "e", "d">>, <<"#", "f", "f", "4", "5", "0", "0">>>>,
      <<<<"o", "r", "c", "h", "i", "d">>, <<"#", "d", "a", "7", "0", "d", "6">>>>,
      <<<<"p", "a", "l", "e", "g", "o", "l", "d", "e", "n", "r", "o", "d">>, <<"#", "e", "e", "e", "8", "a", "a">>>>,
      <<<<"p", "a", "l", "e", "g", "r", "e", "e", "n">>, <<"#", "9", "8", "f", "b", "9", "8">>>>,
      <<<<"p", "a", "l", "e", "t", "u", "r", "q", "u", "o", "i", "s", "e">>, <<"#", "a", "f", "e", "e", "e", "e">>>>,
      <<<<"p", "a", "l", "e", "v", "i", "o", "l", "e", "t", "r", "e", "d">>, <<"#", "d", "b", "7", "0", "9", "3">>>>,
      <<<<"p", "a", "p", "a", "y", "a", "w", "h", "i", "p">>, <<"#", "f", "f", "e", "f", "d", "5">>>>,
      <<<<"p", "e", "a", "c", "h", "p", "u", "f", "f">>, <<"#", "f", "f", "d", "a", "b", "9">>>>,
      <<<<"p", "e", "r", "u">>, <<"#", "c", "d", "8", "5", "3", "f">>>>,
      <<<<"p", "i", "n", "k">>, <<"#", "f", "f", "c", "0", "c", "b">>>>,
      <<<<"p", "l", "u", "m">>, <<"#", "d", "d", "a", "0", "d", "d">>>>,
      <<<<"p", "o", "w", "d", "e", "r", "b", "l", "u", "e">>, <<"#", "b", "0", "e", "0", "e", "6">>>>,
      <<<<"p", "u", "r", "p", "l", "e">>, <<"#", "8", "0", "0", "0", "8", "0">>>>,
      <<<<"r", "e", "b", "e", "c", "c", "a", "p", "u", "r", "p", "l", "e">>, <<"#", "6", "6", "3", "3", "9", "9">>>>,
      <<<<"r", "e", "d">>, <<"#", "f", "f", "0", "0", "0", "0">>>>,
      <<<<"r", "o", "s", "y", "b", "r", "o", "w", "n">>, <<"#", "b", "c", "8", "f", "8", "f">>>>,
      <<<<"r", "o", "y", "a", "l", "b", "l", "u", "e">>, <<"#", "4", "1", "6", "9", "e", "1">>>>,
      <<<<"s", "a", "d", "d", "l", "e", "b", "r", "o", "w", "n">>, <<"#", "8", "b", "4", "5", "1", "3">>>>,
      <<<<"s", "a", "l", "m", "o", "n">>, <<"#", "f", "a", "8", "0", "7", "2">>>>,
      <<<<"s", "a", "n", "d", "y", "b", "r", "o", "w", "n">>, <<"#", "f", "4", "a", "4", "6", "0">>>>,
      <<<<"s", "e", "a", "g", "r", "e", "e", "n">>, <<"#", "2", "e", "8", "b", "5", "7">>>>,
      <<<<"s", "e", "a", "s", "h", "e", "l", "l">>, <<"#", "f", "f", "f", "5", "e", "e">>>>,
      <<<<"s", "i", "e", "n", "n", "a">>, <<"#", "a", "0", "5", "2", "2", "d">>>>,
      <<<<"s", "i", "l", "v", "e", "r">>, <<"#", "c", "0", "c", "0", "c", "0">>>>,
      <<<<"s", "k", "y", "b", "l", "u", "e">>, <<"#", "8", "7", "c", "e", "e", "b">>>>,
      <<<<"s", "l", "a", "t", "e", "b", "l", "u", "e">>, <<"#", "6", "a", "5", "a", "c", "d">>>>,
      <<<<"s", "l", "a", "t", "e", "g", "r", "a", "y">>, <<"#", "7", "0", "8", "0", "9", "0">>>>,
      <<<<"s", "l", "a", "t", "e", "g", "r", "e", "y">>, <<"#", "7", "0", "8", "0", "9", "0">>>>,
      <<<<"s", "n", "o", "w">>, <<"#", "f", "f", "f", "a", "f", "a">>>>,
      <<<<"s", "p", "r", "i", "n", "g", "g", "r", "e", "e", "n">>, <<"#", "0", "0", "f", "f", "7", "f">>>>,
      <<<<"s", "t", "e", "e", "l", "b", "l", "u", "e">>, <<"#", "4", "6", "8", "2", "b", "4">>>>,
      <<<<"t", "a", "n">>, <<"#", "d", "2", "b", "4", "8", "c">>>>,
      <<<<"t", "e", "a", "l">>, <<"#", "0", "0", "8", "0", "8", "0">>>>,
      <<<<"t", "h", "i", "s", "t", "l", "e">>, <<"#", "d", "8", "b", "f", "d", "8">>>>,
      <<<<"t", "o", "m", "a", "t", "o">>, <<"#", "f", "f", "6", "3", "4", "7">>>>,
      <<<<"t", "r", "a", "n", "s", "p", "a", "r", "e", "n", "t">>, <<"#", "0", "0", "0", "0", "0", "0", "0", "0">>>>,
      <<<<"t", "u", "r", "q", "u", "o", "i", "s", "e">>, <<"#", "4", "0", "e", "0", "d", "0">>>>,
      <<<<"v", "i", "o", "l", "e", "t">>, <<"#", "e", "e", "8", "2", "e", "e">>>>,
      <<<<"w", "h", "e", "a", "t">>, <<"#", "f", "5", "d", "e", "b", "3">>>>,
      <<<<"w", "h", "i", "t", "e">>, <<"#", "f", "f", "f", "f", "f", "f">>>>,
      <<<<"w", "h", "i", "t", "e", "s", "m", "o", "k", "e">>, <<"#", "f", "5", "f", "5", "f", "5">>>>,
      <<<<"y", "e", "l", "l", "o", "w">>, <<"#", "f", "f", "f", "f", "0", "0">>>>,
      <<<<"y", "e", "l", "l", "o", "w", "g", "r", "e", "e", "n">>, <<"#", "9", "a", "c", "d", "3", "2">>>>
    }

\* the entries of the table under the key lowerStr: one (hasOwnProperty) or none
CSS_NAMED_COLORS_own(lowerStr) == {e \in CSS_NAMED_COLORS : e[1] = lowerStr}

\* the element of a set of one
The(S) == CHOOSE e \in S : TRUE

(***************************************************************************)
(* The color object (class GoatColorInternal) and its parser.              *)
(*                                                                         *)
(* A block of statements that runs inside try { } returns a completion:    *)
(* the object as the block left it, and the Error in flight, if any.       *)
(***************************************************************************)
Normal(o) == [obj |-> o, throw |-> FALSE, message |-> ""]

Raised(o, msg) == [obj |-> o, throw |-> TRUE, message |-> msg]

\* a handler that lets the exception pass
catch_rethrow(c, prefix) == c

\* catch (e) { this.error = `<prefix>${e.message || 'Parsing failed'}`; this.valid = false; return; }
catch(c, prefix) ==
    IF c.throw
    THEN Normal([c.obj EXCEPT
                   !.error = prefix \o (IF c.message = "" THEN "Parsing failed" ELSE c.message),
                   !.valid = FALSE])
    ELSE c

\* a capture group in a condition: undefined and "" are falsy
Truthy(group) == group # Undefined /\ group # <<>>

\* a property in a condition: null and "" are falsy
TruthyText(t) == t # null /\ t # ""

\* the arguments the callers pass: null, a value that is not a string, a string
Null == [kind |-> "null"]

NonString == [kind |-> "number"]

Str(chars) == [kind |-> "string", chars |-> chars]

\* the fields the constructor sets before it calls _parse
NewObject(colorInput) ==
    [r |-> Num(0), g |-> Num(0), b |-> Num(0), a |-> Num(1), input |-> colorInput,
     valid |-> FALSE, error |-> null, _alphaInputStyleHint |-> null]

\* the check that closes the try block of the hex formats
tryHex_checked(o) ==
    IF IsNaN(o.r) \/ IsNaN(o.g) \/ IsNaN(o.b)
    THEN Raised(o, "Invalid character in hex string.")
    ELSE Normal([o EXCEPT !.valid = TRUE])

\* the assignments from the digit texts; hasA tells whether the alpha group took part
tryHex_digits(self, rText, gText, bText, hasA, aText) ==
    tryHex_checked(
        [self EXCEPT !.r = parseInt16(rText), !.g = parseInt16(gText), !.b = parseInt16(bText),
                     !.a = IF hasA THEN RDiv(parseInt16(aText), Num(255)) ELSE Num(1),
                     !._alphaInputStyleHint = IF hasA THEN ALPHA_STYLE_HINT_NUMBER ELSE @])

\* assignments that do not double the digits of the short forms
tryHex_g_single(self, g) ==
    IF g[5] # Undefined
    THEN tryHex_digits(self, g[5], g[6], g[7], Truthy(g[8]), IF Truthy(g[8]) THEN g[8] ELSE <<>>)
    ELSE tryHex_digits(self, g[1], g[2], g[3], Truthy(g[4]), IF Truthy(g[4]) THEN g[4] ELSE <<>>)

tryHex_g(self, g) ==
    IF g[5] # Undefined
    THEN tryHex_digits(self, g[5], g[6], g[7], Truthy(g[8]), IF Truthy(g[8]) THEN g[8] ELSE <<>>)
    ELSE tryHex_digits(self, g[1] \o g[1], g[2] \o g[2], g[3] \o g[3], Truthy(g[4]),
                       IF Truthy(g[4]) THEN g[4] \o g[4] ELSE <<>>)

tryHex(self, match) == tryHex_g(self, match.g)

tryHexLegacyNum_checked(o) ==
    IF IsNaN(o.r) \/ IsNaN(o.g) \/ IsNaN(o.b) \/ IsNaN(o.a)
    THEN Raised(o, "Invalid character in 0x hex string.")
    ELSE Normal([o EXCEPT !.valid = TRUE])

tryHexLegacyNum_g(self, g) ==
    tryHexLegacyNum_checked(
        [self EXCEPT !.a = IF g[1] # Undefined THEN RDiv(parseInt16(g[1]), Num(255)) ELSE Num(1),
                     !.r = parseInt16(g[2]), !.g = parseInt16(g[3]), !.b = parseInt16(g[4]),
                     !._alphaInputStyleHint =
                         IF g[1] # Undefined THEN ALPHA_STYLE_HINT_NUMBER ELSE @])

tryHexLegacyNum(self, match) == tryHexLegacyNum_g(self, match.g)

tryOklch_checked(o) ==
    IF IsNaN(o.r) \/ IsNaN(o.g) \/ IsNaN(o.b) \/ IsNaN(o.a)
    THEN Raised(o, "OKLCH to RGB conversion resulted in non-finite component values.")
    ELSE Normal([o EXCEPT !.valid = TRUE])

tryOklch_rgb(o, rgb) == tryOklch_checked([o EXCEPT !.r = rgb.r, !.g = rgb.g, !.b = rgb.b])

tryOklch_alphaInfo(self, l_val, c_val, h_val, alphaInfo) ==
    tryOklch_rgb([self EXCEPT !.a = alphaInfo.value,
                              !._alphaInputStyleHint = alphaInfo.styleHint],
                 oklchToSrgb(l_val, c_val, h_val))

tryOklch_c_val(self, g, l_val, c) ==
    IF c.throw THEN Raised(self, c.message)
    ELSE tryOklch_alphaInfo(self, l_val, c.value, parseHue(g[3]), parseAlpha(g[4]))

tryOklch_l_val(self, g, l) ==
    IF l.throw THEN Raised(self, l.message)
    ELSE tryOklch_c_val(self, g, l.value, parseOklchChroma(g[2]))

tryOklch(self, match) == tryOklch_l_val(self, match.g, parseOklchLightness(match.g[1]))

tryHsl_checked(o) ==
    IF IsNaN(o.r) \/ IsNaN(o.g) \/ IsNaN(o.b) \/ IsNaN(o.a)
    THEN Raised(o, "HSL to RGB conversion resulted in non-finite component values.")
    ELSE Normal([o EXCEPT !.valid = TRUE])

tryHsl_rgb(self, c, alphaInfo) ==
    tryHsl_checked([self EXCEPT !.r = c.r, !.g = c.g, !.b = c.b, !.a = alphaInfo.value,
                                !._alphaInputStyleHint = alphaInfo.styleHint])

\* the arguments of hslToRgb are evaluated in order: s and l are the completions of the
\* second and the third
tryHsl_l(self, g, h, s, l) ==
    IF l.throw THEN Raised(self, l.message)
    ELSE tryHsl_rgb(self, hslToRgb(h, s.value, l.value), parseAlpha(g[4]))

tryHsl_s(self, g, h, s) ==
    IF s.throw THEN Raised(self, s.message)
    ELSE tryHsl_l(self, g, h, s, parseHslPercentage(g[3]))

tryHsl(self, match) ==
    tryHsl_s(self, match.g, parseHue(match.g[1]), parseHslPercentage(match.g[2]))

tryRgb_checked(o) ==
    IF IsNaN(o.r) \/ IsNaN(o.g) \/ IsNaN(o.b) \/ IsNaN(o.a)
    THEN Raised(o, "One or more RGB(A) components are not valid numbers.")
    ELSE Normal([o EXCEPT !.valid = TRUE])

tryRgb_alphaInfo(self, g, alphaInfo) ==
    tryRgb_checked([self EXCEPT !.r = parseCssNumber(g[1], Num(255)),
                                !.g = parseCssNumber(g[2], Num(255)),
                                !.b = parseCssNumber(g[3], Num(255)),
                                !.a = alphaInfo.value,
                                !._alphaInputStyleHint = alphaInfo.styleHint])

tryRgb(self, match) == tryRgb_alphaInfo(self, match.g, parseAlpha(match.g[4]))

\* lines 217-220 of _parse: the input is null or undefined
_parse_null(self) == [self EXCEPT !.error = "Input color is null or undefined."]

\* the end of _parse, no format having matched; the text of the input is left out of the message
_parse_unrecognized(self) ==
    [self EXCEPT !.error = IF TruthyText(@) THEN @ ELSE "Unrecognized color format"]

_parse_rgb(self, match) ==
    IF match.matched THEN catch(tryRgb(self, match), "Invalid RGB format: ")
    ELSE Normal(_parse_unrecognized(self))

_parse_hsl(self, str, match) ==
    IF match.matched THEN catch(tryHsl(self, match), "Invalid HSL format: ")
    ELSE _parse_rgb(self, Or(CSS_RGB_REGEX(str), CSS_RGB_LEGACY_REGEX(str)))

_parse_oklch(self, str, match) ==
    IF match.matched THEN catch(tryOklch(self, match), "Invalid OKLCH format: ")
    ELSE _parse_hsl(self, str, Or(CSS_HSL_REGEX(str), CSS_HSL_LEGACY_REGEX(str)))

_parse_0x(self, str, match) ==
    IF match.matched THEN catch(tryHexLegacyNum(self, match), "Invalid 0x Hex format: ")
    ELSE _parse_oklch(self, str, CSS_OKLCH_REGEX(str))

\* the try block of the hex format and its handler
_parse_tryHex(self, match) == catch(tryHex(self, match), "Invalid Hex format: ")

_parse_hex(self, str, match) ==
    IF match.matched THEN _parse_tryHex(self, match)
    ELSE _parse_0x(self, str, CSS_HEX_LEGACY_NUM_REGEX(str))

\* from "let match" on, str being the text or the hex text of its name
_parse_match(self, str) == _parse_hex(self, str, CSS_HEX_REGEX(str))

_parse_lowerStr(self, str, own) ==
    _parse_match(self, IF own # {} THEN The(own)[2] ELSE str)

_parse_str(self, str) ==
    IF str = <<>> THEN Normal([self EXCEPT !.error = "Input color string is empty."])
    ELSE _parse_lowerStr(self, str, CSS_NAMED_COLORS_own(toLowerCase(str)))

_parse_rawInput(self, rawInput) ==
    IF rawInput.kind = "null" THEN Normal(_parse_null(self))
    ELSE IF rawInput.kind # "string"
    THEN Normal([self EXCEPT !.error = "Invalid input type: Expected string, got number."])
    ELSE _parse_str(self, trim(rawInput.chars))

\* _parse(rawInput) on the object self; the completion is that of the whole call
_parse(self, rawInput) ==
    _parse_rawInput([self EXCEPT !.valid = FALSE, !.error = null], rawInput)

\* new GoatColorInternal(colorInput)
GoatColorInternal(colorInput) == _parse(NewObject(colorInput), colorInput)

(***************************************************************************)
(* Number to text.                                                         *)
(***************************************************************************)
RECURSIVE NatToString(_)
NatToString(n) ==
    IF n < 10 THEN <<Digits[n + 1]>> ELSE NatToString(n \div 10) \o <<Digits[(n % 10) + 1]>>

RECURSIVE FractionDigits(_, _, _)
\* the decimal digits of n/d (0 <= n < d), at most k of them
FractionDigits(n, d, k) ==
    IF n = 0 \/ k = 0 THEN <<>>
    ELSE <<Digits[((10 * n) \div d) + 1]>> \o FractionDigits((10 * n) % d, d, k - 1)

NumberToString_frac(whole, frac) == IF frac = <<>> THEN whole ELSE whole \o <<".">> \o frac

NumberToString_abs(n, d) ==
    NumberToString_frac(NatToString(n \div d), FractionDigits(n % d, d, 17))

NumberToString_sign(neg, text) == IF neg THEN <<"-">> \o text ELSE text

\* Number.prototype.toString(): decimal notation (the model prints numbers of few decimals)
NumberToString(x) ==
    IF IsNaN(x) THEN <<"N", "a", "N">>
    ELSE NumberToString_sign(x[1] < 0, NumberToString_abs(Abs(x[1]), x[2]))

\* round(value, decimals) of a number: Number(Math.round(num + "e" + decimals) + "e-" + decimals)
round(value, decimals) ==
    IF IsNaN(value) THEN value
    ELSE RDiv(MathRound(RMul(value, Num(Pow10(decimals)))), Num(Pow10(decimals)))

\* Math.abs(x) < 1e-9, decided without leaving 32 bits
IsWithinEpsilon(x) ==
    ~IsNaN(x) /\ (x[1] = 0 \/ (Abs(x[1]) <= 2 /\ Abs(x[1]) * Pow10(9) < x[2]))

\* x === y of two numbers: NaN equals nothing
StrictEq(x, y) == x[2] # 0 /\ x = y

(***************************************************************************)
(* The methods of the color object.                                        *)
(***************************************************************************)
setAlpha_valid(o, ok) ==
    [o EXCEPT
       !.valid = ok,
       !.error = IF ok \/ TruthyText(@) THEN @
                 ELSE "Color became invalid after setting alpha (underlying RGB might be corrupt)."]

setAlpha(self, alphaValue, styleHint) ==
    setAlpha_valid([self EXCEPT
                      !.a = clamp(alphaValue, Num(0), Num(1)),
                      !._alphaInputStyleHint =
                          IF styleHint = ALPHA_STYLE_HINT_NUMBER \/ styleHint = ALPHA_STYLE_HINT_PERCENT
                          THEN styleHint ELSE ALPHA_STYLE_HINT_PERCENT],
                   ~(IsNaN(self.r) \/ IsNaN(self.g) \/ IsNaN(self.b)))

\* if (numStr.startsWith("0.")) numStr = numStr.substring(1)
_getAlphaString_numStr(numStr) ==
    IF Len(numStr) >= 2 /\ numStr[1] = "0" /\ numStr[2] = "." THEN Tail(numStr) ELSE numStr

\* a formatter that writes every alpha as a percentage
_getAlphaString_alpha_percent(hint, alpha) ==
    IF IsWithinEpsilon(RSub(alpha, Num(1))) THEN <<"1">>
    ELSE IF IsWithinEpsilon(alpha) THEN <<"0">>
    ELSE NumberToString(round(RMul(alpha, Num(100)), 0)) \o <<"%">>

_getAlphaString_alpha(hint, alpha) ==
    IF IsWithinEpsilon(RSub(alpha, Num(1))) THEN <<"1">>
    ELSE IF IsWithinEpsilon(alpha) THEN <<"0">>
    ELSE IF hint = ALPHA_STYLE_HINT_NUMBER
    THEN _getAlphaString_numStr(NumberToString(round(alpha, 3)))
    ELSE NumberToString(round(RMul(alpha, Num(100)), 0)) \o <<"%">>

_getAlphaString(self) == _getAlphaString_alpha(self._alphaInputStyleHint, self.a)

toRgb(self) ==
    IF ~self.valid THEN [r |-> Num(0), g |-> Num(0), b |-> Num(0)]
    ELSE [r |-> MathRound(self.r), g |-> MathRound(self.g), b |-> MathRound(self.b)]

\* this.error || "Invalid Color", a text the model does not spell out in characters
errorText(self) == <<IF TruthyText(self.error) THEN self.error ELSE "Invalid Color">>

toHex(self) ==
    IF ~self.valid THEN errorText(self)
    ELSE <<"#">> \o toHexPart(self.r) \o toHexPart(self.g) \o toHexPart(self.b)

toHexa(self) ==
    IF ~self.valid THEN errorText(self)
    ELSE <<"#">> \o toHexPart(self.r) \o toHexPart(self.g) \o toHexPart(self.b)
           \o (IF self.a = Num(1) THEN <<>> ELSE toHexPart(RMul(self.a, Num(255))))

\* toHexShort / toHexaShort return null when no short form exists
NullText == <<"null">>

\* a test that looks at the digits of the red byte only
toHexShort_bH_red(rH, gH, bH) ==
    IF rH[1] = rH[2] THEN <<"#", rH[1], gH[1], bH[1]>> ELSE NullText

toHexShort_bH(rH, gH, bH) ==
    IF rH[1] = rH[2] /\ gH[1] = gH[2] /\ bH[1] = bH[2]
    THEN <<"#", rH[1], gH[1], bH[1]>>
    ELSE NullText

toHexShort(self) ==
    IF ~self.valid \/ RLt(self.a, Num(1)) THEN NullText
    ELSE toHexShort_bH(toHexPart(self.r), toHexPart(self.g), toHexPart(self.b))

toHexaShort_aH(self, rH, gH, bH, aH) ==
    IF rH[1] = rH[2] /\ gH[1] = gH[2] /\ bH[1] = bH[2] /\ aH[1] = aH[2]
    THEN IF self.a = Num(1) THEN <<"#", rH[1], gH[1], bH[1]>>
         ELSE <<"#", rH[1], gH[1], bH[1], aH[1]>>
    ELSE NullText

toHexaShort(self) ==
    IF ~self.valid THEN NullText
    ELSE toHexaShort_aH(self, toHexPart(self.r), toHexPart(self.g), toHexPart(self.b),
                        toHexPart(RMul(self.a, Num(255))))

\* a || b of two texts, a null or a text that is not empty
OrText(a, b) == IF a # NullText THEN a ELSE b

\* if (!this.valid) return this.input == null ? (this.error || "Invalid Color") : String(this.input)
toString_invalid(self) ==
    IF self.input.kind = "null" THEN errorText(self)
    ELSE IF self.input.kind = "string" THEN self.input.chars
    ELSE <<"String(input)">>

\* toString("hexshort"): hexS || this.toHex()
toString_hexshort(self) ==
    IF ~self.valid THEN toString_invalid(self) ELSE OrText(toHexShort(self), toHex(self))

\* toString("hexashort"): hexaS || this.toHexa()
toString_hexashort(self) ==
    IF ~self.valid THEN toString_invalid(self) ELSE OrText(toHexaShort(self), toHexa(self))

\* Math.max / Math.min of three numbers
Max3(x, y, z) == MathMax(MathMax(x, y), z)

Min3(x, y, z) == MathMin(MathMin(x, y), z)

\* the hue in sixths of a turn times six: switch (max) { case rN: ... case gN: ... case bN: ... }
toHsl_h(rN, gN, bN, max, d) ==
    IF StrictEq(max, rN)
    THEN RAdd(RDiv(RSub(gN, bN), d), IF RLt(gN, bN) THEN Num(6) ELSE Num(0))
    ELSE IF StrictEq(max, gN) THEN RAdd(RDiv(RSub(bN, rN), d), Num(2))
    ELSE IF StrictEq(max, bN) THEN RAdd(RDiv(RSub(rN, gN), d), Num(4))
    ELSE Num(0)

toHsl_d(rN, gN, bN, max, min, l, d) ==
    [h |-> RMul(RDiv(toHsl_h(rN, gN, bN, max, d), Num(6)), Num(360)),
     s |-> RMul(IF RLt(<<1, 2>>, l) THEN RDiv(d, RSub(RSub(Num(2), max), min))
                ELSE RDiv(d, RAdd(max, min)), Num(100)),
     l |-> RMul(l, Num(100))]

toHsl_l(rN, gN, bN, max, min, l) ==
    IF StrictEq(max, min) THEN [h |-> Num(0), s |-> Num(0), l |-> RMul(l, Num(100))]
    ELSE toHsl_d(rN, gN, bN, max, min, l, RSub(max, min))

toHsl_max(rN, gN, bN, max, min) ==
    toHsl_l(rN, gN, bN, max, min, RDiv(RAdd(max, min), Num(2)))

toHsl_rN(rN, gN, bN) == toHsl_max(rN, gN, bN, Max3(rN, gN, bN), Min3(rN, gN, bN))

toHsl(self) ==
    IF ~self.valid THEN [h |-> Num(0), s |-> Num(0), l |-> Num(0)]
    ELSE toHsl_rN(RDiv(self.r, Num(255)), RDiv(self.g, Num(255)), RDiv(self.b, Num(255)))

_normalizeHue_h(h) == IF RLt(h, Num(0)) THEN RAdd(h, Num(360)) ELSE h

_normalizeHue(hue) == _normalizeHue_h(JsRem(hue, 360))

\* new GoatColorInternal(null): of _parse, lines 214-220 run
NullColor == _parse_null([NewObject(Null) EXCEPT !.valid = FALSE, !.error = null])

\* the text of i.input, alphaStrForInput the text of the temporary formatter
_fromRgba_input(i, alphaStrForInput) ==
    <<"r", "g", "b", "(">> \o NumberToString(i.r) \o <<" ">> \o NumberToString(i.g)
        \o <<" ">> \o NumberToString(i.b)
        \o (IF i.a = Num(1) THEN <<")">> ELSE <<" ", "/", " ">> \o alphaStrForInput \o <<")">>)

_fromRgba_i(i) ==
    [i EXCEPT !.input =
        Str(_fromRgba_input(i, _getAlphaString([NullColor EXCEPT
                                   !.a = i.a, !._alphaInputStyleHint = i._alphaInputStyleHint])))]

\* static _fromRgba(r, g, b, a, alphaStyleHint)
_fromRgba(r, g, b, a, alphaStyleHint) ==
    _fromRgba_i([NullColor EXCEPT !.r = MathRound(clamp(r, Num(0), Num(255))),
                                  !.g = MathRound(clamp(g, Num(0), Num(255))),
                                  !.b = MathRound(clamp(b, Num(0), Num(255))),
                                  !.a = clamp(a, Num(0), Num(1)),
                                  !._alphaInputStyleHint = alphaStyleHint,
                                  !.valid = TRUE])

_cloneWithNewHsl_rgb(self, c) ==
    _fromRgba(c.r, c.g, c.b, clamp(self.a, Num(0), Num(1)), self._alphaInputStyleHint)

\* _cloneWithNewHsl(h, s, l) with a defaulted to this.a
_cloneWithNewHsl(self, h, s, l) ==
    _cloneWithNewHsl_rgb(self, hslToRgb(_normalizeHue(h), clamp(s, Num(0), Num(100)),
                                        clamp(l, Num(0), Num(100))))

\* an argument that is a color object (instanceof GoatColorInternal) rather than a text
Instance(o) == [kind |-> "instance", obj |-> o]

White == Str(<<"w", "h", "i", "t", "e">>)

\* new GoatColorInternal("white"): of _parse, the look-up of the name and the hex format run
WhiteColor ==
    _parse_tryHex([NewObject(White) EXCEPT !.valid = FALSE, !.error = null],
                  CSS_HEX_REGEX(The(CSS_NAMED_COLORS_own(White.chars))[2])).obj

\* lines 890-894: the channels of self over the opaque background bgInstance
flatten_final(self, bgInstance) ==
    _fromRgba(RAdd(RMul(self.r, self.a), RMul(bgInstance.r, RSub(Num(1), self.a))),
              RAdd(RMul(self.g, self.a), RMul(bgInstance.g, RSub(Num(1), self.a))),
              RAdd(RMul(self.b, self.a), RMul(bgInstance.b, RSub(Num(1), self.a))),
              Num(1), self._alphaInputStyleHint)

\* bgInstance.flatten("white") of a valid bgInstance with a < 1: "white" is valid and opaque
flatten_white(bgInstance) == flatten_final(bgInstance, WhiteColor)

\* a flatten that composes over a translucent background as it is given
flatten_opaque_given(bgInstance) == bgInstance

\* if (bgInstance.a < 1) bgInstance = bgInstance.flatten("white")
flatten_opaque(bgInstance) ==
    IF RLt(bgInstance.a, Num(1)) THEN flatten_white(bgInstance) ELSE bgInstance

\* if (!bgInstance.isValid()) bgInstance = new GoatColorInternal("white")
flatten_bgInstance(self, bgInstance) ==
    flatten_final(self, flatten_opaque(IF bgInstance.valid THEN bgInstance ELSE WhiteColor))

\* a flatten that exchanges r and b when the color is opaque
flatten_exchanged(self, backgroundInput) ==
    IF ~self.valid
    THEN [NullColor EXCEPT !.error = IF TruthyText(self.error) THEN self.error
                                     ELSE "Cannot flatten an invalid color."]
    ELSE IF self.a = Num(1)
    THEN _fromRgba(self.b, self.g, self.r, Num(1), self._alphaInputStyleHint)
    ELSE flatten_bgInstance(self, IF backgroundInput.kind = "instance" THEN backgroundInput.obj
                                  ELSE GoatColorInternal(backgroundInput).obj)

flatten(self, backgroundInput) ==
    IF ~self.valid
    THEN [NullColor EXCEPT !.error = IF TruthyText(self.error) THEN self.error
                                     ELSE "Cannot flatten an invalid color."]
    ELSE IF self.a = Num(1)
    THEN _fromRgba(self.r, self.g, self.b, Num(1), self._alphaInputStyleHint)
    ELSE flatten_bgInstance(self, IF backgroundInput.kind = "instance" THEN backgroundInput.obj
                                  ELSE GoatColorInternal(backgroundInput).obj)

(***************************************************************************)
(* The sRGB -> OKLCH chain of toOklch and the relative luminance, in the   *)
(* fixed point of the parser's chain.  Math.cbrt, Math.sqrt and Math.atan2 *)
(* are computed by bisection on their inverses; the results can differ     *)
(* from those of IEEE doubles in the sixth decimal, more for the darkest   *)
(* colors, and by degrees in the hue of a color without chroma.            *)
(***************************************************************************)
\* srgbToLinear(c) at c = 0, 1/2, 1, ..., 255 (fixed point): cn / 12.92 up to cn = 0.04045 and
\* Math.pow((cn + 0.055) / 1.055, 2.4) above it, cn = c / 255
SrgbToLinearHalves ==
    <<0, 152, 304, 455, 607, 759, 911, 1062, 1214, 1366, 1518, 1669, 1821, 1973,
      2125, 2276, 2428, 2580, 2732, 2884, 3035, 3188, 3347, 3509, 3677, 3848, 4025, 4206,
      4391, 4582, 4777, 4977, 5182, 5391, 5605, 5825, 6049, 6278, 6512, 6751, 6995, 7245,
      7499, 7759, 8023, 8293, 8568, 8848, 9134, 9425, 9721, 10023, 10330, 10642, 10960, 11283,
      11612, 11947, 12286, 12632, 12983, 13340, 13702, 14070, 14444, 14823, 15209, 15600, 15996, 16399,
      16807, 17222, 17642, 18068, 18500, 18938, 19382, 19832, 20289, 20751, 21219, 21693, 22174, 22661,
      23153, 23652, 24158, 24669, 25187, 25711, 26241, 26778, 27321, 27870, 28426, 28988, 29557, 30132,
      30713, 31301, 31896, 32497, 33105, 33719, 34340, 34967, 35601, 36242, 36889, 37544, 38204, 38872,
      39546, 40227, 40915, 41610, 42311, 43020, 43735, 44457, 45186, 45922, 46665, 47415, 48172, 48936,
      49707, 50484, 51269, 52062, 52861, 53667, 54480, 55301, 56128, 56963, 57805, 58655, 59511, 60375,
      61246, 62124, 63010, 63903, 64803, 65711, 66626, 67548, 68478, 69415, 70360, 71312, 72272, 73239,
      74214, 75196, 76185, 77183, 78187, 79200, 80220, 81247, 82283, 83326, 84376, 85434, 86500, 87574,
      88656, 89745, 90842, 91946, 93059, 94179, 95307, 96443, 97587, 98739, 99899, 101066, 102242, 103425,
      104616, 105816, 107023, 108238, 109462, 110693, 111932, 113180, 114435, 115699, 116971, 118250, 119538, 120835,
      122139, 123451, 124772, 126101, 127438, 128783, 130136, 131498, 132868, 134247, 135633, 137028, 138432, 139843,
      141263, 142692, 144128, 145574, 147027, 148489, 149960, 151439, 152926, 154422, 155926, 157439, 158961, 160491,
      162029, 163576, 165132, 166696, 168269, 169851, 171441, 173040, 174647, 176264, 177888, 179522, 181164, 182815,
      184475, 186143, 187821, 189507, 191202, 192905, 194618, 196339, 198069, 199808, 201556, 203313, 205079, 206853,
      208637, 210429, 212231, 214041, 215861, 217689, 219526, 221373, 223228, 225092, 226966, 228848, 230740, 232641,
      234551, 236470, 238398, 240335, 242281, 244237, 246201, 248175, 250158, 252151, 254152, 256163, 258183, 260212,
      262251, 264298, 266356, 268422, 270498, 272583, 274677, 276781, 278894, 281017, 283149, 285290, 287441, 289601,
      291771, 293950, 296138, 298336, 300544, 302761, 304987, 307223, 309469, 311724, 313989, 316263, 318547, 320840,
      323143, 325456, 327778, 330110, 332452, 334803, 337164, 339534, 341914, 344304, 346704, 349113, 351533, 353961,
      356400, 358849, 361307, 363775, 366253, 368740, 371238, 373745, 376262, 378789, 381326, 383873, 386429, 388996,
      391572, 394159, 396755, 399362, 401978, 404604, 407240, 409886, 412543, 415209, 417885, 420571, 423268, 425974,
      428690, 431417, 434154, 436900, 439657, 442424, 445201, 447988, 450786, 453593, 456411, 459239, 462077, 464925,
      467784, 470653, 473531, 476421, 479320, 482230, 485150, 488080, 491021, 493972, 496933, 499905, 502886, 505879,
      508881, 511894, 514918, 517951, 520996, 524050, 527115, 530191, 533276, 536373, 539479, 542597, 545724, 548863,
      552011, 555171, 558340, 561521, 564712, 567913, 571125, 574347, 577580, 580824, 584078, 587343, 590619, 593905,
      597202, 600509, 603827, 607156, 610496, 613846, 617207, 620578, 623960, 627353, 630757, 634172, 637597, 641033,
      644480, 647937, 651406, 654885, 658375, 661876, 665387, 668910, 672443, 675987, 679542, 683108, 686685, 690273,
      693872, 697481, 701102, 704733, 708376, 712029, 715694, 719369, 723055, 726752, 730461, 734180, 737910, 741652,
      745404, 749168, 752942, 756728, 760525, 764332, 768151, 771981, 775822, 779674, 783538, 787412, 791298, 795195,
      799103, 803022, 806952, 810894, 814847, 818811, 822786, 826772, 830770, 834779, 838799, 842830, 846873, 850927,
      854993, 859069, 863157, 867256, 871367, 875489, 879622, 883767, 887923, 892091, 896269, 900460, 904661, 908874,
      913099, 917335, 921582, 925841, 930111, 934393, 938686, 942990, 947307, 951634, 955973, 960324, 964686, 969060,
      973445, 977842, 982251, 986671, 991102, 995545, 1000000>>

\* srgbToLinear(c) of a channel 0 <= c <= 255; the channels of the model are multiples of 1/2
srgbToLinear(c) == SrgbToLinearHalves[((2 * c[1]) \div c[2]) + 1]

SRGB_TO_XYZ_MATRIX ==
    <<<<412391, 357584, 180481>>,
      <<212639, 715169, 72192>>,
      <<19331, 119195, 950532>>>>

OKLAB_XYZ_TO_LMS_MATRIX ==
    <<<<818933, 361867, -128860>>,
      <<32985, 929312, 36146>>,
      <<48200, 264366, 633852>>>>

OKLAB_LMS_P_TO_LAB_MATRIX ==
    <<<<210454, 793618, -4072>>,
      <<1977998, -2428592, 450594>>,
      <<25904, 782772, -808676>>>>

RECURSIVE MathCbrt_search(_, _, _)
MathCbrt_mid(x, lo, hi, mid) ==
    IF FixMul(FixMul(mid, mid), mid) >= x THEN MathCbrt_search(x, lo, mid)
    ELSE MathCbrt_search(x, mid + 1, hi)

\* the least y in lo..hi whose cube is at least x
MathCbrt_search(x, lo, hi) ==
    IF lo >= hi THEN lo ELSE MathCbrt_mid(x, lo, hi, (lo + hi) \div 2)

\* Math.cbrt(x) for 0 <= x <= 2; a small x by the root of 1000 x
MathCbrt(x) ==
    IF x < 1000 THEN MathCbrt_search(1000 * x, 0, FixOne) \div 10
    ELSE MathCbrt_search(x, 0, 2 * FixOne)

RECURSIVE MathSqrt_search(_, _, _)
MathSqrt_mid(x, lo, hi, mid) ==
    IF FixMul(mid, mid) >= x THEN MathSqrt_search(x, lo, mid) ELSE MathSqrt_search(x, mid + 1, hi)

\* the least y in lo..hi whose square is at least x
MathSqrt_search(x, lo, hi) ==
    IF lo >= hi THEN lo ELSE MathSqrt_mid(x, lo, hi, (lo + hi) \div 2)

\* Math.sqrt(x) for 0 <= x <= 4
MathSqrt(x) == MathSqrt_search(x, 0, 2 * FixOne)

\* the power of ten that brings the greater of two small magnitudes close to one
FixScale(m) ==
    IF m < 100 THEN 10000 ELSE IF m < 1000 THEN 1000 ELSE IF m < 10000 THEN 100
    ELSE IF m < 100000 THEN 10 ELSE 1

MaxNat(a, b) == IF a < b THEN b ELSE a

\* Math.sqrt(a * a + b * b), the operands scaled by k
toOklch_C_scaled(a, b, k) == MathSqrt(FixMul(a * k, a * k) + FixMul(b * k, b * k)) \div k

toOklch_C(a_ok, b_ok) ==
    toOklch_C_scaled(Abs(a_ok), Abs(b_ok), FixScale(MaxNat(Abs(a_ok), Abs(b_ok))))

RECURSIVE MathAtan2_search(_, _, _, _)
MathAtan2_cs(a, b, lo, hi, mid, cs) ==
    IF FixMul(a, cs[2]) <= FixMul(b, cs[1]) THEN MathAtan2_search(a, b, mid, hi)
    ELSE MathAtan2_search(a, b, lo, mid - 1)

\* the greatest angle in lo..hi (degrees) whose tangent is at most b / a, for a, b >= 0
MathAtan2_search(a, b, lo, hi) ==
    IF lo >= hi THEN lo
    ELSE MathAtan2_cs(a, b, lo, hi, (lo + hi + 1) \div 2,
                      CosSin(FixMul((lo + hi + 1) \div 2, FixPI) \div 180))

MathAtan2_quadrant(a, b, k) == MathAtan2_search(a * k, b * k, 0, 90 * FixOne)

\* (Math.atan2(b_ok, a_ok) * 180) / Math.PI; if (H < 0) H += 360: the hue in degrees
toOklch_H_phi(a_ok, b_ok, phi) ==
    IF b_ok >= 0 THEN (IF a_ok >= 0 THEN phi ELSE 180 * FixOne - phi)
    ELSE (IF a_ok >= 0 THEN 360 * FixOne - phi ELSE 180 * FixOne + phi)

toOklch_H(a_ok, b_ok) ==
    IF a_ok = 0 /\ b_ok = 0 THEN 0
    ELSE toOklch_H_phi(a_ok, b_ok,
             MathAtan2_quadrant(Abs(a_ok), Abs(b_ok), FixScale(MaxNat(Abs(a_ok), Abs(b_ok)))))

toOklch_Lab(Lab) ==
    [l |-> Rat(Lab[1], 10000), c |-> Rat(toOklch_C(Lab[2], Lab[3]), FixOne),
     h |-> Rat(toOklch_H(Lab[2], Lab[3]), FixOne)]

toOklch_lms(lms) ==
    toOklch_Lab(multiplyMatrix(OKLAB_LMS_P_TO_LAB_MATRIX,
                               <<MathCbrt(lms[1]), MathCbrt(lms[2]), MathCbrt(lms[3])>>))

toOklch(self) ==
    IF ~self.valid THEN [l |-> Num(0), c |-> Num(0), h |-> Num(0)]
    ELSE IF IsNaN(self.r) \/ IsNaN(self.g) \/ IsNaN(self.b) THEN [l |-> NaN, c |-> NaN, h |-> NaN]
    ELSE toOklch_lms(multiplyMatrix(OKLAB_XYZ_TO_LMS_MATRIX,
                        multiplyMatrix(SRGB_TO_XYZ_MATRIX,
                            <<srgbToLinear(self.r), srgbToLinear(self.g), srgbToLinear(self.b)>>)))

\* the luminance as a number: fixed point over FixOne
getRelativeLuminance(self) ==
    IF ~self.valid THEN Num(0)
    ELSE IF IsNaN(self.r) \/ IsNaN(self.g) \/ IsNaN(self.b) THEN NaN
    ELSE Rat(FixMul(SRGB_TO_XYZ_MATRIX[2][1], srgbToLinear(self.r))
             + FixMul(SRGB_TO_XYZ_MATRIX[2][2], srgbToLinear(self.g))
             + FixMul(SRGB_TO_XYZ_MATRIX[2][3], srgbToLinear(self.b)), FixOne)

(***************************************************************************)
(* GoatColor.getContrastRatio.                                             *)
(***************************************************************************)
\* a luminance in units of 1 / FixOne
getContrastRatio_fixed(lum) == lum[1] * (FixOne \div lum[2])

MinNat(a, b) == IF b < a THEN b ELSE a

\* a ratio of the darker to the lighter
getContrastRatio_darker_inverted(lighter, darker) == round(Rat(darker + 50000, lighter + 50000), 2)

\* round((lighter + 0.05) / (darker + 0.05), 2), the luminances in units of 1 / FixOne
getContrastRatio_darker(lighter, darker) == round(Rat(lighter + 50000, darker + 50000), 2)

\* a ratio that takes the luminances in the order of the arguments
getContrastRatio_lumBg_ordered(lumFg, lumBg) ==
    IF IsNaN(lumFg) \/ IsNaN(lumBg) THEN NaN
    ELSE getContrastRatio_darker(getContrastRatio_fixed(lumFg), getContrastRatio_fixed(lumBg))

\* lighter = Math.max(lumFg, lumBg), darker = Math.min(lumFg, lumBg)
getContrastRatio_lumBg(lumFg, lumBg) ==
    IF IsNaN(lumFg) \/ IsNaN(lumBg) THEN NaN
    ELSE getContrastRatio_darker(MaxNat(getContrastRatio_fixed(lumFg), getContrastRatio_fixed(lumBg)),
                                 MinNat(getContrastRatio_fixed(lumFg), getContrastRatio_fixed(lumBg)))

\* if (!effectiveForeground.isValid()) return 1
getContrastRatio_effectiveForeground(effectiveForeground, effectiveBackground) ==
    IF ~effectiveForeground.valid THEN Num(1)
    ELSE getContrastRatio_lumBg(getRelativeLuminance(effectiveForeground),
                                getRelativeLuminance(effectiveBackground))

\* if (!effectiveBackground.isValid()) return 1
getContrastRatio_effectiveBackground(c1Instance, effectiveBackground) ==
    IF ~effectiveBackground.valid THEN Num(1)
    ELSE getContrastRatio_effectiveForeground(flatten(c1Instance, Instance(effectiveBackground)),
                                              effectiveBackground)

\* if (!c1Instance.isValid() || !c2Instance.isValid()) return 1
getContrastRatio_c2Instance(c1Instance, c2Instance) ==
    IF ~c1Instance.valid \/ ~c2Instance.valid THEN Num(1)
    ELSE getContrastRatio_effectiveBackground(c1Instance, flatten(c2Instance, White))

\* colorInput instanceof GoatColorInternal ? colorInput : new GoatColorInternal(colorInput)
getContrastRatio_instance(colorInput) ==
    IF colorInput.kind = "instance" THEN colorInput.obj ELSE GoatColorInternal(colorInput).obj

getContrastRatio(colorInput1, colorInput2) ==
    getContrastRatio_c2Instance(getContrastRatio_instance(colorInput1),
                                getContrastRatio_instance(colorInput2))

(***************************************************************************)
(* The serializers.                                                        *)
(***************************************************************************)
\* `${x}${sep}${y}${sep}${z}`
Join3(x, y, z, sep) == x \o sep \o y \o sep \o z

toRgbString_rgb(c, legacy) ==
    <<"r", "g", "b", "(">>
        \o Join3(NumberToString(c.r), NumberToString(c.g), NumberToString(c.b),
                 IF legacy THEN <<",", " ">> ELSE <<" ">>)
        \o <<")">>

toRgbString(self, legacy) ==
    IF ~self.valid THEN errorText(self) ELSE toRgbString_rgb(toRgb(self), legacy)

\* the text of the alpha in the legacy syntaxes, from round(this.a, 2).toString()
toRgbaString_legacyA(legacyA) ==
    IF legacyA = <<"0", ".", "0", "0">> THEN <<"0">>
    ELSE IF legacyA = <<"1", ".", "0", "0">> THEN <<"1">>
    ELSE IF Len(legacyA) >= 2 /\ legacyA[1] = "0" /\ legacyA[2] = "." THEN Tail(legacyA)
    ELSE legacyA

\* the modern syntax: name(body) when this.a === 1, name(body / aStr) otherwise
toRgbaString_modern(self, name, body) ==
    IF self.a = Num(1) THEN name \o <<"(">> \o body \o <<")">>
    ELSE name \o <<"(">> \o body \o <<" ", "/", " ">> \o _getAlphaString(self) \o <<")">>

toRgbaString_rgb(self, c, legacy) ==
    IF legacy
    THEN <<"r", "g", "b", "a", "(">>
             \o Join3(NumberToString(c.r), NumberToString(c.g), NumberToString(c.b), <<",", " ">>)
             \o <<",", " ">> \o toRgbaString_legacyA(NumberToString(round(self.a, 2))) \o <<")">>
    ELSE toRgbaString_modern(self, <<"r", "g", "b">>,
             Join3(NumberToString(c.r), NumberToString(c.g), NumberToString(c.b), <<" ">>))

toRgbaString(self, legacy) ==
    IF ~self.valid THEN errorText(self) ELSE toRgbaString_rgb(self, toRgb(self), legacy)

\* `${hS} ${sS}% ${lS}%`, or with commas
toHslString_body(hS, sS, lS, sep) ==
    Join3(NumberToString(hS), NumberToString(sS) \o <<"%">>, NumberToString(lS) \o <<"%">>, sep)

toHslString_hsl(c, legacy) ==
    <<"h", "s", "l", "(">>
        \o toHslString_body(round(c.h, 0), round(c.s, 0), round(c.l, 0),
                            IF legacy THEN <<",", " ">> ELSE <<" ">>)
        \o <<")">>

toHslString(self, legacy) ==
    IF ~self.valid THEN errorText(self) ELSE toHslString_hsl(toHsl(self), legacy)

toHslaString_hsl(self, c, legacy) ==
    IF legacy
    THEN <<"h", "s", "l", "a", "(">>
             \o toHslString_body(round(c.h, 0), round(c.s, 0), round(c.l, 0), <<",", " ">>)
             \o <<",", " ">> \o toRgbaString_legacyA(NumberToString(round(self.a, 2))) \o <<")">>
    ELSE toRgbaString_modern(self, <<"h", "s", "l">>,
             toHslString_body(round(c.h, 0), round(c.s, 0), round(c.l, 0), <<" ">>))

toHslaString(self, legacy) ==
    IF ~self.valid THEN errorText(self) ELSE toHslaString_hsl(self, toHsl(self), legacy)

\* `${round(l, 0)}% ${round(c, 3)} ${round(h, 0)}`
toOklchString_body(c) ==
    Join3(NumberToString(round(c.l, 0)) \o <<"%">>, NumberToString(round(c.c, 3)),
          NumberToString(round(c.h, 0)), <<" ">>)

toOklchString(self) ==
    IF ~self.valid THEN errorText(self)
    ELSE <<"o", "k", "l", "c", "h", "(">> \o toOklchString_body(toOklch(self)) \o <<")">>

toOklchaString(self) ==
    IF ~self.valid THEN errorText(self)
    ELSE toRgbaString_modern(self, <<"o", "k", "l", "c", "h">>, toOklchString_body(toOklch(self)))

\* text.startsWith(prefix)
startsWith(text, prefix) ==
    Len(text) >= Len(prefix) /\ SubSeq(text, 1, Len(prefix)) = prefix

\* this.input && typeof this.input === 'string' && this.input.toLowerCase().startsWith(prefix)
toString_inputStartsWith(self, prefix) ==
    /\ self.input.kind = "string"
    /\ self.input.chars # <<>>
    /\ startsWith(toLowerCase(self.input.chars), prefix)

\* the branch of "auto" for this.a < 1, hexaS being null
toString_alphaStr(self, alphaStr) ==
    IF (\E k \in DOMAIN alphaStr : alphaStr[k] = "%")
       \/ (self._alphaInputStyleHint = ALPHA_STYLE_HINT_NUMBER /\ self.a # round(self.a, 0))
    THEN IF toString_inputStartsWith(self, <<"o", "k", "l", "c", "h">>) THEN toOklchaString(self)
         ELSE IF toString_inputStartsWith(self, <<"h", "s", "l">>) THEN toHslaString(self, FALSE)
         ELSE toRgbaString(self, FALSE)
    ELSE toRgbaString(self, FALSE)

\* case "auto": default:
toString_auto(self, hexS, hexaS) ==
    IF RLt(self.a, Num(1))
    THEN IF hexaS # NullText THEN hexaS ELSE toString_alphaStr(self, _getAlphaString(self))
    ELSE IF hexS # NullText THEN hexS
    ELSE IF toString_inputStartsWith(self, <<"o", "k", "l", "c", "h">>) THEN toOklchString(self)
    ELSE IF toString_inputStartsWith(self, <<"h", "s", "l">>) THEN toHslString(self, FALSE)
    ELSE IF toString_inputStartsWith(self, <<"r", "g", "b">>) THEN toRgbString(self, FALSE)
    ELSE toHex(self)

\* switch (format.toLowerCase())
toString_format(self, format, hexS, hexaS) ==
    CASE format = <<"h", "e", "x">> -> toHex(self)
      [] format = <<"h", "e", "x", "a">> -> toHexa(self)
      [] format = <<"h", "e", "x", "s", "h", "o", "r", "t">> -> OrText(hexS, toHex(self))
      [] format = <<"h", "e", "x", "a", "s", "h", "o", "r", "t">> -> OrText(hexaS, toHexa(self))
      [] format = <<"r", "g", "b">> -> toRgbString(self, FALSE)
      [] format = <<"r", "g", "b", "a">> -> toRgbaString(self, FALSE)
      [] format = <<"r", "g", "b", "l", "e", "g", "a", "c", "y">> -> toRgbString(self, TRUE)
      [] format = <<"r", "g", "b", "a", "l", "e", "g", "a", "c", "y">> -> toRgbaString(self, TRUE)
      [] format = <<"h", "s", "l">> -> toHslString(self, FALSE)
      [] format = <<"h", "s", "l", "a">> -> toHslaString(self, FALSE)
      [] format = <<"h", "s", "l", "l", "e", "g", "a", "c", "y">> -> toHslString(self, TRUE)
      [] format = <<"h", "s", "l", "a", "l", "e", "g", "a", "c", "y">> -> toHslaString(self, TRUE)
      [] format = <<"o", "k", "l", "c", "h">> -> toOklchString(self)
      [] format = <<"o", "k", "l", "c", "h", "a">> -> toOklchaString(self)
      [] OTHER -> toString_auto(self, hexS, hexaS)

\* toString(format), format a text
toString(self, format) ==
    IF ~self.valid THEN toString_invalid(self)
    ELSE toString_format(self, toLowerCase(format), toHexShort(self), toHexaShort(self))

(***************************************************************************)
(* The palettes.  A palette is an array; an entry is either the receiver   *)
(* itself (isThis, the same object, not a copy) or a new object.           *)
(***************************************************************************)
This(self) == [isThis |-> TRUE, obj |-> self]

New(o) == [isThis |-> FALSE, obj |-> o]

\* the entries this._cloneWithNewHsl(h, s, l) for the triples <<h, s, l>> of hsls
Clones(self, hsls) ==
    [i \in DOMAIN hsls |-> New(_cloneWithNewHsl(self, hsls[i][1], hsls[i][2], hsls[i][3]))]

RECURSIVE InsertByKey(_, _)
InsertByKey(sorted, e) ==
    IF sorted = <<>> THEN <<e>>
    ELSE IF RLt(e.key, Head(sorted).key) THEN <<e>> \o sorted
    ELSE <<Head(sorted)>> \o InsertByKey(Tail(sorted), e)

RECURSIVE SortByKey(_)
\* Array.prototype.sort((x, y) => key(x) - key(y)): stable, ascending by key
SortByKey(s) ==
    IF s = <<>> THEN <<>>
    ELSE InsertByKey(SortByKey(SubSeq(s, 1, Len(s) - 1)), s[Len(s)])

Unkeyed(sorted) == [i \in DOMAIN sorted |-> sorted[i].e]

\* an array left in the order it was built in
sortByHue_unsorted(p) == p

\* .sort((a, b) => this._normalizeHue(a.toHsl().h) - this._normalizeHue(b.toHsl().h))
sortByHue(p) ==
    Unkeyed(SortByKey([i \in DOMAIN p |-> [key |-> _normalizeHue(toHsl(p[i].obj).h), e |-> p[i]]]))

\* .sort((c1, c2) => c1.toHsl().l - c2.toHsl().l)
sortByLightness(p) ==
    Unkeyed(SortByKey([i \in DOMAIN p |-> [key |-> toHsl(p[i].obj).l, e |-> p[i]]]))

LIGHTEN_FACTOR_MONO == <<4, 5>>

DARKEN_FACTOR_MONO == <<17, 20>>

\* the triples of the two for loops
getMonochromaticPalette_loops(h, s, baseL, lighterColorsCount, darkerColorsCount) ==
    [i \in 1..lighterColorsCount |->
        <<h, s, clamp(RAdd(baseL, RMul(RMul(RSub(Num(100), baseL), Rat(i, lighterColorsCount + 1)),
                                       LIGHTEN_FACTOR_MONO)), Num(0), Num(100))>>]
    \o [i \in 1..darkerColorsCount |->
        <<h, s, clamp(RMul(baseL, RSub(Num(1), RMul(Rat(i, darkerColorsCount + 1),
                                                     DARKEN_FACTOR_MONO))), Num(0), Num(100))>>]

\* Math.ceil((count - 1) / 2) and Math.floor((count - 1) / 2) of count >= 1
getMonochromaticPalette_hsl(self, count, h, s, baseL) ==
    sortByLightness(<<This(self)>> \o Clones(self,
        IF count = 2
        THEN <<<<h, s, clamp(IF RLt(Num(50), baseL) THEN RSub(baseL, Num(20))
                             ELSE RAdd(baseL, Num(20)), Num(0), Num(100))>>>>
        ELSE getMonochromaticPalette_loops(h, s, baseL, count \div 2, (count - 1) \div 2)))

getMonochromaticPalette_toHsl(self, count, hsl) ==
    getMonochromaticPalette_hsl(self, count, hsl.h, hsl.s, hsl.l)

getMonochromaticPalette(self, count) ==
    IF ~self.valid \/ count < 1 THEN <<This(self)>>
    ELSE IF count = 1 THEN <<This(self)>>
    ELSE getMonochromaticPalette_toHsl(self, count, toHsl(self))

getAnalogousPalette_clones(self, clones) == sortByHue(<<clones[1], This(self), clones[2]>>)

getAnalogousPalette_hsl(self, angle, h, s, l) ==
    getAnalogousPalette_clones(self, Clones(self, <<<<RSub(h, angle), s, l>>,
                                                    <<RAdd(h, angle), s, l>>>>))

getAnalogousPalette_toHsl(self, angle, hsl) ==
    getAnalogousPalette_hsl(self, angle, hsl.h, hsl.s, hsl.l)

getAnalogousPalette(self, angle) ==
    IF ~self.valid THEN <<This(self)>> ELSE getAnalogousPalette_toHsl(self, angle, toHsl(self))

\* a complement a quarter of a turn away
getComplementaryPalette_toHsl_quarter(self, hsl) ==
    <<This(self)>> \o Clones(self, <<<<RAdd(hsl.h, Num(90)), hsl.s, hsl.l>>>>)

getComplementaryPalette_toHsl(self, hsl) ==
    <<This(self)>> \o Clones(self, <<<<RAdd(hsl.h, Num(180)), hsl.s, hsl.l>>>>)

getComplementaryPalette(self) ==
    IF ~self.valid THEN <<This(self)>> ELSE getComplementaryPalette_toHsl(self, toHsl(self))

getSplitComplementaryPalette_complementaryHue(self, angle, s, l, complementaryHue) ==
    sortByHue(<<This(self)>> \o Clones(self, <<<<RSub(complementaryHue, angle), s, l>>,
                                               <<RAdd(complementaryHue, angle), s, l>>>>))

getSplitComplementaryPalette_toHsl(self, angle, hsl) ==
    getSplitComplementaryPalette_complementaryHue(self, angle, hsl.s, hsl.l,
                                                  _normalizeHue(RAdd(hsl.h, Num(180))))

getSplitComplementaryPalette(self, angle) ==
    IF ~self.valid THEN <<This(self)>>
    ELSE getSplitComplementaryPalette_toHsl(self, angle, toHsl(self))

\* a triad a sixth of a turn apart
getTriadicPalette_toHsl_sixth(self, hsl) ==
    sortByHue(<<This(self)>> \o Clones(self, <<<<RAdd(hsl.h, Num(60)), hsl.s, hsl.l>>,
                                               <<RAdd(hsl.h, Num(120)), hsl.s, hsl.l>>>>))

getTriadicPalette_toHsl(self, hsl) ==
    sortByHue(<<This(self)>> \o Clones(self, <<<<RAdd(hsl.h, Num(120)), hsl.s, hsl.l>>,
                                               <<RAdd(hsl.h, Num(240)), hsl.s, hsl.l>>>>))

getTriadicPalette(self) ==
    IF ~self.valid THEN <<This(self)>> ELSE getTriadicPalette_toHsl(self, toHsl(self))

getTetradicPalette_toHsl(self, offsetAngle, hsl) ==
    sortByHue(<<This(self)>> \o Clones(self,
        <<<<RAdd(hsl.h, offsetAngle), hsl.s, hsl.l>>,
          <<RAdd(hsl.h, Num(180)), hsl.s, hsl.l>>,
          <<RAdd(RAdd(hsl.h, Num(180)), offsetAngle), hsl.s, hsl.l>>>>))

getTetradicPalette(self, offsetAngle) ==
    IF ~self.valid THEN <<This(self)>>
    ELSE getTetradicPalette_toHsl(self, offsetAngle, toHsl(self))

(***************************************************************************)
(* GoatColor.getMaxSRGBChroma.  A call is a frame: its parameters, its     *)
(* locals and the place it is at (pc: "loop" at the test of the for loop,  *)
(* "return" after a break, "done" once it returned ret).  passes counts    *)
(* the passes of the loop body and passed is the last midpoint that the    *)
(* round-trip check let through, none before the first.                    *)
(***************************************************************************)
\* x < y of two numbers, decided over the common divisor g of their denominators
RLtWide_g(x, y, g) == x[1] * (y[2] \div g) < y[1] * (x[2] \div g)

\* x < y, false when an operand is NaN, without leaving 32 bits for the operands of the search
RLtWide(x, y) == x[2] # 0 /\ y[2] # 0 /\ RLtWide_g(x, y, GCD(x[2], y[2]))

toFixed4_n(n) ==
    NatToString(n \div 10000)
        \o <<".", Digits[((n \div 1000) % 10) + 1], Digits[((n \div 100) % 10) + 1],
             Digits[((n \div 10) % 10) + 1], Digits[(n % 10) + 1]>>

\* Number.prototype.toFixed(4) of a number x >= 0
toFixed4(x) ==
    IF IsNaN(x) THEN <<"N", "a", "N">> ELSE toFixed4_n(MathRound(RMul(x, Num(10000)))[1])

\* `oklch(${lOklch}% ${chroma} ${hOklch})`
getMaxSRGBChroma_text(lOklch, chroma, hOklch) ==
    Str(<<"o", "k", "l", "c", "h", "(">> \o NumberToString(lOklch) \o <<"%", " ">> \o chroma
            \o <<" ">> \o NumberToString(hOklch) \o <<")">>)

NoMidpoint == <<-1, 1>>

\* the locals before the loop, the upper bound taken as it was passed
getMaxSRGBChroma_chromaSliderMax_raw(f, chromaSliderMax) ==
    [f EXCEPT !.pc = "loop", !.chromaSliderMax = f.args[3], !.high = f.args[3]]

\* lines 989-991: the locals before the loop
getMaxSRGBChroma_chromaSliderMax(f, chromaSliderMax) ==
    [f EXCEPT !.pc = "loop", !.chromaSliderMax = chromaSliderMax, !.high = chromaSliderMax]

\* lines 981-987: the two early returns, and chromaSliderMax = Math.max(0, chromaSliderMax)
getMaxSRGBChroma_lOklch(f) ==
    IF RLt(f.lOklch, <<1, 1000>>) \/ RLt(<<99999, 1000>>, f.lOklch)
    THEN [f EXCEPT !.pc = "done", !.ret = Num(0)]
    ELSE IF IsNaN(f.hOklch) THEN [f EXCEPT !.pc = "done", !.ret = Num(0)]
    ELSE getMaxSRGBChroma_chromaSliderMax(f, MathMax(Num(0), f.chromaSliderMax))

\* GoatColor.getMaxSRGBChroma(lOklch, hOklch, chromaSliderMax, precision, iterations) up to the
\* for loop: lOklch = Math.max(0, Math.min(100, lOklch)), hOklch = ((hOklch % 360) + 360) % 360
getMaxSRGBChroma(lOklch, hOklch, chromaSliderMax, precision, iterations) ==
    getMaxSRGBChroma_lOklch(
        [pc |-> "entry", args |-> <<lOklch, hOklch, chromaSliderMax>>,
         lOklch |-> MathMax(Num(0), MathMin(Num(100), lOklch)),
         hOklch |-> JsRem(RAdd(JsRem(hOklch, 360), Num(360)), 360),
         chromaSliderMax |-> chromaSliderMax, precision |-> precision, iterations |-> iterations,
         i |-> 0, low |-> Num(0), high |-> Num(0), maxAchievableC |-> Num(0), ret |-> NaN,
         passes |-> 0, passed |-> NoMidpoint])

\* break
getMaxSRGBChroma_break(f) == [f EXCEPT !.pc = "return", !.passes = @ + 1]

\* continue, or the end of the body: i++
getMaxSRGBChroma_continue(f) == [f EXCEPT !.i = @ + 1, !.passes = @ + 1]

\* lines 1037-1039: if ((high - low) < precision) break
getMaxSRGBChroma_high(f) ==
    IF RLt(RSub(f.high, f.low), f.precision) THEN getMaxSRGBChroma_break(f)
    ELSE getMaxSRGBChroma_continue(f)

\* if (hDiff > 180) hDiff = 360 - hDiff
getMaxSRGBChroma_hDiff(hDiff) == IF RLt(Num(180), hDiff) THEN RSub(Num(360), hDiff) ELSE hDiff

\* chromaSignificantlyReduced || lShiftedTooMuch || hShiftedTooMuch
getMaxSRGBChroma_rejected(f, midC, roundTrippedOklch) ==
    \/ RLtWide(roundTrippedOklch.c, RSub(midC, RMul(f.precision, Num(5))))
    \/ RLt(<<3, 2>>, RAbs(RSub(roundTrippedOklch.l, f.lOklch)))
    \/ /\ RLt(Num(5), getMaxSRGBChroma_hDiff(RAbs(RSub(roundTrippedOklch.h, f.hOklch))))
       /\ RLt(<<1, 50>>, midC)

\* lines 1030-1035
getMaxSRGBChroma_roundTrippedOklch(f, midC, roundTrippedOklch) ==
    getMaxSRGBChroma_high(
        IF getMaxSRGBChroma_rejected(f, midC, roundTrippedOklch) THEN [f EXCEPT !.high = midC]
        ELSE [f EXCEPT !.maxAchievableC = midC, !.low = midC, !.passed = midC])

\* lines 1011-1015
getMaxSRGBChroma_roundTrippedColor(f, midC, roundTrippedColor) ==
    IF ~roundTrippedColor.valid THEN getMaxSRGBChroma_continue([f EXCEPT !.high = midC])
    ELSE getMaxSRGBChroma_roundTrippedOklch(f, midC, toOklch(roundTrippedColor))

\* lines 1004-1010: the color of `rgb(${rgb.r}, ${rgb.g}, ${rgb.b})`
getMaxSRGBChroma_testColor(f, midC, testColor) ==
    IF ~testColor.valid THEN getMaxSRGBChroma_continue([f EXCEPT !.high = midC])
    ELSE getMaxSRGBChroma_roundTrippedColor(f, midC,
             GoatColorInternal(Str(toRgbString_rgb(toRgb(testColor), TRUE))).obj)

\* a pass that goes on with the loop where lines 996-1000 break
getMaxSRGBChroma_zeroChromaColor_on(f, zeroChromaColor) ==
    getMaxSRGBChroma_continue(IF zeroChromaColor.valid THEN [f EXCEPT !.maxAchievableC = Num(0)]
                              ELSE f)

\* lines 996-1000
getMaxSRGBChroma_zeroChromaColor(f, zeroChromaColor) ==
    getMaxSRGBChroma_break(IF zeroChromaColor.valid THEN [f EXCEPT !.maxAchievableC = Num(0)] ELSE f)

\* lines 996-1002
getMaxSRGBChroma_midC(f, midC) ==
    IF RLt(midC, RDiv(f.precision, Num(2)))
    THEN getMaxSRGBChroma_zeroChromaColor(f,
             GoatColorInternal(getMaxSRGBChroma_text(f.lOklch, <<"0">>, f.hOklch)).obj)
    ELSE getMaxSRGBChroma_testColor(f, midC,
             GoatColorInternal(getMaxSRGBChroma_text(f.lOklch, toFixed4(midC), f.hOklch)).obj)

\* one pass of the body of the for loop, from const midC = (low + high) / 2
getMaxSRGBChroma_body(f) == getMaxSRGBChroma_midC(f, RDiv(RAdd(f.low, f.high), Num(2)))

\* return Math.max(0, maxAchievableC)
getMaxSRGBChroma_return(f) == [f EXCEPT !.pc = "done", !.ret = MathMax(Num(0), f.maxAchievableC)]

(***************************************************************************)
(* The theme editor: its color utilities.  A text is a sequence of         *)
(* characters; a colorInfo is the record parseColorString returns.         *)
(***************************************************************************)
\* str.includes(c) of a character c
includes(str, c) == \E i \in DOMAIN str : str[i] = c

\* str.indexOf(c) of a character c, counted from 0, -1 when there is none
indexOf(str, c) ==
    IF includes(str, c) THEN (CHOOSE i \in DOMAIN str : str[i] = c /\ \A j \in 1..(i - 1) : str[j] # c) - 1
    ELSE -1

\* str.substring(from, to), both counted from 0
substring(str, from, to) == SubSeq(str, from + 1, to)

\* str.split(c).length of a character c
splitLength(str, c) == Cardinality({i \in DOMAIN str : str[i] = c}) + 1

UpperChar(c) ==
    IF \E i \in 1..26 : LowerCase[i] = c
    THEN UpperCase[CHOOSE i \in 1..26 : LowerCase[i] = c]
    ELSE c

toUpperCase(s) == [i \in DOMAIN s |-> UpperChar(s[i])]

\* /^(0x)?[0-9a-f]+$/i.test(str)
HexNumberTest_digits(digits) == digits # <<>> /\ \A i \in DOMAIN digits : digits[i] \in HexClass

HexNumberTest(str, lowerStr) ==
    \/ HexNumberTest_digits(str)
    \/ startsWith(lowerStr, <<"0", "x">>) /\ HexNumberTest_digits(substring(str, 2, Len(str)))

\* str.replace(/^#|^0x/i, '')
hexContent(str) ==
    IF startsWith(str, <<"#">>) THEN substring(str, 1, Len(str))
    ELSE IF startsWith(toLowerCase(str), <<"0", "x">>) THEN substring(str, 2, Len(str))
    ELSE str

\* what parseColorString finds in the text before it constructs the color
Found(inputFormat, originalPrefix, originalUsesCommas, originalHadExplicitAlpha) ==
    [inputFormat |-> inputFormat, originalPrefix |-> originalPrefix,
     originalUsesCommas |-> originalUsesCommas, originalHadExplicitAlpha |-> originalHadExplicitAlpha]

parseColorString_hex(str, lowerStr, content) ==
    Found("hex",
          IF startsWith(str, <<"#">>) THEN <<"#">>
          ELSE IF startsWith(lowerStr, <<"0", "x">>) THEN substring(str, 0, 2) ELSE <<>>,
          FALSE,
          Len(content) = 4 \/ Len(content) = 8
              \/ (Len(content) = 10 /\ startsWith(lowerStr, <<"0", "x">>)))

\* the branches of "rgb" and of "hsl": withA is "rgba" or "hsla"
parseColorString_function(str, inputFormat, withA, originalPrefix, originalUsesCommas) ==
    Found(inputFormat, originalPrefix, originalUsesCommas,
          \/ includes(str, "/")
          \/ /\ toLowerCase(originalPrefix) = withA
             /\ splitLength(str, IF originalUsesCommas THEN "," ELSE " ") > 3)

parseColorString_found(str, lowerStr) ==
    IF startsWith(lowerStr, <<"#">>) \/ HexNumberTest(str, lowerStr)
    THEN parseColorString_hex(str, lowerStr, hexContent(str))
    ELSE IF startsWith(lowerStr, <<"r", "g", "b">>)
    THEN parseColorString_function(str, "rgb", <<"r", "g", "b", "a">>,
                                   substring(str, 0, indexOf(lowerStr, "(")), includes(str, ","))
    ELSE IF startsWith(lowerStr, <<"h", "s", "l">>)
    THEN parseColorString_function(str, "hsl", <<"h", "s", "l", "a">>,
                                   substring(str, 0, indexOf(lowerStr, "(")), includes(str, ","))
    ELSE IF startsWith(lowerStr, <<"o", "k", "l", "c", "h">>)
    THEN Found("oklch", substring(str, 0, indexOf(lowerStr, "(")), FALSE, includes(str, "/"))
    ELSE Found("unknown", <<>>, FALSE, FALSE)

\* (rHex + gHex + bHex).toUpperCase() of gc.toRgb()
parseColorString_internalHex(rgb) ==
    toUpperCase(toHexPart_rounded(MathRound(rgb.r)) \o toHexPart_rounded(MathRound(rgb.g))
                    \o toHexPart_rounded(MathRound(rgb.b)))

parseColorString_gc(str, found, gc) ==
    IF gc.valid
    THEN [hex |-> parseColorString_internalHex(toRgb(gc)),
          alpha |-> gc.a,
          goatColor |-> gc,
          originalString |-> str,
          inputFormat |-> found.inputFormat,
          originalPrefix |-> found.originalPrefix,
          originalUsesCommas |-> found.originalUsesCommas,
          originalHadExplicitAlpha |-> found.originalHadExplicitAlpha]
    ELSE Null

parseColorString_str(str) ==
    parseColorString_gc(str, parseColorString_found(str, toLowerCase(str)),
                        GoatColorInternal(Str(str)).obj)

\* parseColorString(str) of a text
parseColorString(str) == parseColorString_str(trim(str))

\* the 0x form of a text the color wrote with "#": the alpha byte goes first
formatColorForOutput_0x(outputString, originalPrefix) ==
    IF ~startsWith(outputString, <<"#">>) THEN outputString
    ELSE IF Len(outputString) = 9
    THEN originalPrefix \o substring(outputString, 7, 9) \o substring(outputString, 1, 7)
    ELSE IF Len(outputString) = 5
    THEN originalPrefix \o <<outputString[5], outputString[5], outputString[2], outputString[2],
                             outputString[3], outputString[3], outputString[4], outputString[4]>>
    ELSE originalPrefix \o substring(outputString, 1, Len(outputString))

formatColorForOutput_prefixed(outputString, originalPrefix) ==
    IF toLowerCase(originalPrefix) = <<"0", "x">>
    THEN formatColorForOutput_0x(outputString, originalPrefix)
    ELSE IF originalPrefix = <<>> /\ startsWith(outputString, <<"#">>)
    THEN substring(outputString, 1, Len(outputString))
    ELSE IF originalPrefix = <<"#">> /\ ~startsWith(outputString, <<"#">>)
    THEN <<"#">> \o outputString
    ELSE outputString

\* isShortHexLen && short ? short : long
formatColorForOutput_short(isShortHexLen, short, long) ==
    IF isShortHexLen /\ short # NullText /\ short # <<>> THEN short ELSE long

formatColorForOutput_hex(gc, outputAlpha, isShortHexLen, originalPrefix) ==
    formatColorForOutput_prefixed(
        IF outputAlpha THEN formatColorForOutput_short(isShortHexLen, toHexaShort(gc), toHexa(gc))
        ELSE formatColorForOutput_short(isShortHexLen, toHexShort(gc), toHex(gc)),
        originalPrefix)

formatColorForOutput_rgb(rgbBaseString, outputAlpha, originalPrefix) ==
    IF originalPrefix # <<>> /\ startsWith(toLowerCase(rgbBaseString), toLowerCase(originalPrefix))
    THEN originalPrefix \o substring(rgbBaseString, Len(originalPrefix), Len(rgbBaseString))
    ELSE IF /\ originalPrefix # <<>> /\ outputAlpha /\ toLowerCase(originalPrefix) = <<"r", "g", "b">>
            /\ startsWith(toLowerCase(rgbBaseString), <<"r", "g", "b", "a">>)
    THEN originalPrefix \o <<"a">> \o substring(rgbBaseString, Len(originalPrefix) + 1, Len(rgbBaseString))
    ELSE rgbBaseString

formatColorForOutput_hsl(hslBaseString, originalPrefix) ==
    IF originalPrefix # <<>> /\ startsWith(toLowerCase(hslBaseString), toLowerCase(originalPrefix))
    THEN originalPrefix \o substring(hslBaseString, Len(originalPrefix), Len(hslBaseString))
    ELSE hslBaseString

\* the default of the switch: the text of toString("auto"), its "#" replaced by the prefix
formatColorForOutput_default(outputString, originalPrefix) ==
    IF ~startsWith(outputString, <<"#">>) THEN outputString
    ELSE IF toLowerCase(originalPrefix) = <<"0", "x">>
    THEN IF Len(outputString) = 9
         THEN originalPrefix \o substring(outputString, 7, 9) \o substring(outputString, 1, 7)
         ELSE originalPrefix \o substring(outputString, 1, Len(outputString))
    ELSE IF originalPrefix = <<>> THEN substring(outputString, 1, Len(outputString))
    ELSE outputString

formatColorForOutput_outputAlpha(colorInfo, gc, originalPrefix, usesCommas, outputAlpha) ==
    CASE colorInfo.inputFormat = "hex" ->
           formatColorForOutput_hex(gc, outputAlpha,
                                    Len(hexContent(colorInfo.originalString)) \in {3, 4},
                                    originalPrefix)
      [] colorInfo.inputFormat = "rgb" ->
           formatColorForOutput_rgb(IF outputAlpha THEN toRgbaString(gc, usesCommas)
                                    ELSE toRgbString(gc, usesCommas),
                                    outputAlpha, originalPrefix)
      [] colorInfo.inputFormat = "hsl" ->
           formatColorForOutput_hsl(IF outputAlpha THEN toHslaString(gc, usesCommas)
                                    ELSE toHslString(gc, usesCommas),
                                    originalPrefix)
      [] colorInfo.inputFormat = "oklch" ->
           IF outputAlpha THEN toOklchaString(gc) ELSE toOklchString(gc)
      [] OTHER ->
           formatColorForOutput_default(toString(gc, <<"a", "u", "t", "o">>), originalPrefix)

formatColorForOutput_gc(colorInfo, gc, originalPrefix) ==
    formatColorForOutput_outputAlpha(colorInfo, gc, originalPrefix, colorInfo.originalUsesCommas,
        \/ colorInfo.originalHadExplicitAlpha
        \/ RLt(gc.a, Num(1))
        \/ (originalPrefix # <<>> /\ LowerChar(originalPrefix[Len(originalPrefix)]) = "a"
              /\ Len(originalPrefix) > 3))

\* formatColorForOutput(colorInfo) of a colorInfo that parseColorString returned
formatColorForOutput(colorInfo) ==
    IF ~colorInfo.goatColor.valid THEN colorInfo.originalString
    ELSE formatColorForOutput_gc(colorInfo, colorInfo.goatColor, colorInfo.originalPrefix)

\* normalizeHex(hexInput): gc.isValid() ? gc.toHex().substring(1).toUpperCase() : '000000'
normalizeHex_gc(gc) ==
    IF gc.valid THEN toUpperCase(substring(toHex(gc), 1, 7)) ELSE <<"0", "0", "0", "0", "0", "0">>

normalizeHex(hexInput) == normalizeHex_gc(GoatColorInternal(Str(hexInput)).obj)

(***************************************************************************)
(* The texts the callers pass in.  An input is described by the parts it   *)
(* is written from (d.fam and the fields of that family) and carries the   *)
(* text itself in d.input; a number token carries the number it was        *)
(* written from.                                                           *)
(***************************************************************************)
\* the token "<n><suffix>" of the number n
Tok(n, suffix) == [txt |-> NumberToString(n) \o suffix, val |-> n, sfx |-> suffix]

\* a token spelled out, with the number parseFloat reads in it (NaN when it reads none)
RawTok(chars, n, suffix) == [txt |-> chars, val |-> n, sfx |-> suffix]

\* an alpha that is not written
NoTok == [txt |-> Undefined, val |-> NaN, sfx |-> <<>>]

Pct == <<"%">>

Bare == <<>>

\* name(t1 t2 t3), name(t1 t2 t3 / a) or name(t1, t2, t3, a)
FunctionText(name, legacy, t1, t2, t3, alpha) ==
    LET sep == IF legacy THEN <<",", " ">> ELSE <<" ">>
        asep == IF legacy THEN <<",", " ">> ELSE <<" ", "/", " ">>
    IN  name \o <<"(">> \o t1.txt \o sep \o t2.txt \o sep \o t3.txt
          \o (IF alpha = NoTok THEN <<>> ELSE asep \o alpha.txt) \o <<")">>

FunctionInput(fam, name, legacy, t1, t2, t3, alpha) ==
    [fam |-> fam, legacy |-> legacy, t1 |-> t1, t2 |-> t2, t3 |-> t3, alpha |-> alpha,
     input |-> Str(FunctionText(name, legacy, t1, t2, t3, alpha))]

HslInput(legacy, h, s, l, alpha) ==
    FunctionInput("hsl", IF alpha = NoTok THEN <<"h", "s", "l">> ELSE <<"h", "s", "l", "a">>,
                  legacy, h, s, l, alpha)

RgbInput(legacy, r, g, b, alpha) ==
    FunctionInput("rgb", IF legacy /\ alpha # NoTok THEN <<"r", "g", "b", "a">> ELSE <<"r", "g", "b">>,
                  legacy, r, g, b, alpha)

OklchInput(l, c, h, alpha) == FunctionInput("oklch", <<"o", "k", "l", "c", "h">>, FALSE, l, c, h, alpha)

UpperHexDigits == Digits \o <<"A", "B", "C", "D", "E", "F">>

\* the two hex digits of a byte
ByteText(v, upper) ==
    LET ds == IF upper THEN UpperHexDigits ELSE HexDigits
    IN  <<ds[(v \div 16) + 1], ds[(v % 16) + 1]>>

\* the hex digit of a nibble
NibbleText(v, upper) == <<(IF upper THEN UpperHexDigits ELSE HexDigits)[v + 1]>>

\* no alpha byte is written
NoAlpha == <<>>

\* #RRGGBB[AA] or RRGGBB[AA]
HexLongInput(prefix, R, G, B, A, upper) ==
    [fam |-> "hex", form |-> "long", R |-> R, G |-> G, B |-> B, A |-> A,
     input |-> Str(prefix \o ByteText(R, upper) \o ByteText(G, upper) \o ByteText(B, upper)
                     \o (IF A = NoAlpha THEN <<>> ELSE ByteText(A[1], upper)))]

\* #RGB[A] or RGB[A], of nibbles
HexShortInput(prefix, R, G, B, A, upper) ==
    [fam |-> "hex", form |-> "short", R |-> R, G |-> G, B |-> B, A |-> A,
     input |-> Str(prefix \o NibbleText(R, upper) \o NibbleText(G, upper) \o NibbleText(B, upper)
                     \o (IF A = NoAlpha THEN <<>> ELSE NibbleText(A[1], upper)))]

\* 0x[AA]RRGGBB
Hex0xInput(R, G, B, A, upper) ==
    [fam |-> "0x", form |-> "long", R |-> R, G |-> G, B |-> B, A |-> A,
     input |-> Str((IF upper THEN <<"0", "X">> ELSE <<"0", "x">>)
                     \o (IF A = NoAlpha THEN <<>> ELSE ByteText(A[1], upper))
                     \o ByteText(R, upper) \o ByteText(G, upper) \o ByteText(B, upper))]

\* any other argument
OtherInput(tag, raw) == [fam |-> tag, input |-> raw]

(***************************************************************************)
(* The inputs of the callers.                                              *)
(***************************************************************************)
HueTokens ==
    {Tok(Num(330), Bare), Tok(Num(-30), Bare), Tok(Num(30), <<"d", "e", "g">>),
     Tok(Rat(1, 2), <<"t", "u", "r", "n">>), RawTok(<<"a", "b", "c">>, NaN, <<"a", "b", "c">>)}

PercentTokens ==
    {Tok(Num(50), Pct), Tok(Num(150), Pct), Tok(Num(50), Bare), RawTok(<<"%">>, NaN, Pct)}

AlphaTokens ==
    {NoTok, Tok(Rat(1, 2), Bare), Tok(Rat(201, 1000), Bare), Tok(Rat(1, 5), Bare),
     Tok(Num(0), Bare), Tok(Num(1), Bare), Tok(Num(2), Bare), Tok(Num(-1), Bare),
     Tok(Num(50), Pct), Tok(Rat(25, 2), Pct), Tok(Num(150), Pct), Tok(Num(-5), Pct),
     RawTok(<<".">>, NaN, Bare), RawTok(<<"%">>, NaN, Pct),
     RawTok(<<".", "5">>, Rat(1, 2), Bare), RawTok(<<"+", "4", "0", "%">>, Num(40), Pct)}

ChannelTokens ==
    {Tok(Num(255), Bare), Tok(Num(0), Bare), Tok(Num(300), Bare), Tok(Num(-1), Bare),
     Tok(Num(50), Pct), Tok(Rat(255, 2), Bare), Tok(Num(17), Bare), RawTok(<<".">>, NaN, Bare)}

HslInputs ==
    {HslInput(lg, Tok(Num(330), Bare), Tok(Num(50), Pct), Tok(Num(50), Pct), a) :
        lg \in BOOLEAN, a \in AlphaTokens}
    \cup {HslInput(lg, Tok(Num(0), Bare), s, l, NoTok) :
        lg \in BOOLEAN, s \in PercentTokens, l \in PercentTokens}
    \cup {HslInput(FALSE, h, Tok(Num(100), Pct), Tok(Num(25), Pct), a) :
        h \in HueTokens, a \in {NoTok, Tok(Num(50), Bare), Tok(Num(50), Pct)}}

RgbInputs ==
    {RgbInput(lg, Tok(Num(17), Bare), Tok(Num(34), Bare), Tok(Num(51), Bare), a) :
        lg \in BOOLEAN, a \in AlphaTokens}
    \cup {RgbInput(lg, r, Tok(Num(204), Bare), b, a) :
        lg \in BOOLEAN, r \in ChannelTokens, b \in {Tok(Num(0), Bare), Tok(Rat(1, 2), Bare)},
        a \in {NoTok, Tok(Rat(1, 5), Bare)}}

OklchInputs ==
    {OklchInput(l, c, h, a) :
        l \in {Tok(Num(50), Pct), Tok(Rat(7, 10), Bare), RawTok(<<".">>, NaN, Bare)},
        c \in {Tok(Rat(1, 10), Bare), Tok(Num(25), Pct)},
        h \in {Tok(Num(200), Bare), Tok(Num(30), <<"d", "e", "g">>)},
        a \in {NoTok, Tok(Rat(1, 4), Bare), Tok(Num(150), Pct)}}

HexInputs ==
    {HexLongInput(p, R, G, B, A, FALSE) :
        p \in {<<"#">>, <<>>}, R \in {255, 26}, G \in {0, 1, 136}, B \in {0, 204},
        A \in {NoAlpha, <<51>>, <<128>>, <<255>>}}
    \cup {HexLongInput(<<"#">>, 255, G, 0, A, TRUE) : G \in {0, 1}, A \in {NoAlpha, <<0>>, <<170>>}}
    \cup {Hex0xInput(R, G, B, A, FALSE) :
        R \in {255, 26}, G \in {0, 1, 136}, B \in {0, 204}, A \in {NoAlpha, <<51>>, <<128>>, <<255>>}}
    \cup {Hex0xInput(255, G, 0, A, TRUE) : G \in {0, 1}, A \in {NoAlpha, <<0>>, <<170>>}}
    \cup {HexShortInput(p, R, G, B, A, FALSE) :
        p \in {<<"#">>, <<>>}, R \in {15, 1}, G \in {0, 10}, B \in {0, 9},
        A \in {NoAlpha, <<0>>, <<3>>, <<15>>}}
    \cup {HexShortInput(<<"#">>, 15, G, 12, A, TRUE) : G \in {0, 10}, A \in {NoAlpha, <<11>>}}

OtherInputs ==
    {OtherInput("null", Null), OtherInput("nonstring", NonString),
     OtherInput("empty", Str(<<>>)), OtherInput("empty", Str(<<" ", " ">>)),
     OtherInput("unrecognized", Str(<<"n", "o", "t", "-", "a", "-", "c", "o", "l", "o", "r">>)),
     OtherInput("unrecognized", Str(<<"#", "1", "2", "3", "4", "5">>)),
     OtherInput("unrecognized", Str(<<"#", "f", "f", "0", "0", "z", "z">>)),
     OtherInput("unrecognized", Str(<<"0", "x", "f", "f", "0", "0">>)),
     OtherInput("unrecognized", Str(<<"r", "g", "b", "(", "1", " ", "2", ")">>)),
     OtherInput("unrecognized", Str(<<"h", "s", "l", "(", "0", ",", " ", "5", "0", "%", " ", "5", "0", "%", ")">>)),
     OtherInput("named", Str(<<"r", "e", "d">>)),
     OtherInput("named", Str(<<" ", "T", "r", "a", "n", "s", "p", "a", "r", "e", "n", "t", " ">>)),
     OtherInput("named", Str(<<"R", "e", "b", "e", "c", "c", "a", "P", "u", "r", "p", "l", "e">>))}

\* the inputs of SpecParse
ParseInputs == HexInputs \cup HslInputs \cup RgbInputs \cup OklchInputs \cup OtherInputs

\* the hues of SpecPair, in classes modulo 360
PairHues ==
    {Num(-390), Num(-30), Num(330), Num(690), Num(-360), Num(0), Num(360), Num(720),
     Rat(-719, 2), Rat(1, 2), Rat(721, 2), Num(30), Num(390)}

\* the inputs of SpecPair
PairInputs ==
    {HslInput(FALSE, Tok(h, Bare), Tok(Num(50), Pct), Tok(Num(50), Pct), NoTok) : h \in PairHues}
    \cup {HslInput(TRUE, Tok(h, Bare), Tok(Num(100), Pct), Tok(Num(25), Pct), Tok(Rat(1, 2), Bare)) :
            h \in PairHues}

\* the inputs of Spec: valid and opaque, valid and translucent, and the failures of
\* _parse that leave r, g, b as they were, or a NaN in them
SpecInputs ==
    {HslInput(FALSE, Tok(Num(330), Bare), Tok(Num(50), Pct), Tok(Num(50), Pct), NoTok),
     RgbInput(FALSE, Tok(Num(17), Bare), Tok(Num(34), Bare), Tok(Num(51), Bare), Tok(Rat(1, 2), Bare)),
     HexLongInput(<<"#">>, 255, 0, 0, <<128>>, FALSE),
     HexLongInput(<<"#">>, 119, 119, 119, NoAlpha, FALSE),
     HslInput(FALSE, Tok(Num(0), Bare), Tok(Num(50), Bare), Tok(Num(50), Pct), NoTok),
     RgbInput(FALSE, RawTok(<<".">>, NaN, Bare), Tok(Num(204), Bare), Tok(Num(0), Bare), NoTok),
     OtherInput("unrecognized", Str(<<"n", "o", "t", "-", "a", "-", "c", "o", "l", "o", "r">>))}

\* the numbers and the units of the hue tokens of SpecHue
HueNumbers ==
    {Num(0), Num(1), Num(30), Num(90), Num(100), Num(180), Num(200), Num(359), Num(360),
     Num(361), Num(400), Num(720), Num(-30), Num(-90), Num(-360), Num(-400),
     Rat(1, 2), Rat(3, 2), Rat(1, 4), Rat(-1, 4), Rat(-5, 2)}

HueUnits ==
    {Bare, <<"d", "e", "g">>, <<"r", "a", "d">>, <<"g", "r", "a", "d">>, <<"t", "u", "r", "n">>,
     <<"°">>, <<"D", "E", "G">>, <<"T", "u", "r", "n">>, <<"x", "y", "z">>}

HueCallTokens ==
    {Tok(n, u) : n \in HueNumbers, u \in HueUnits}
    \cup {RawTok(<<"-", "0">>, Num(0), Bare), RawTok(<<" ", "4", "5", " ">>, Num(45), Bare),
          RawTok(<<"1", "e", "2">>, Num(100), Bare), RawTok(<<"t", "u", "r", "n">>, NaN, <<"t", "u", "r", "n">>)}

\* the arguments of setAlpha: the value and the style hint
AlphaArgs ==
    {<<Rat(1, 2), ALPHA_STYLE_HINT_NUMBER>>, <<Rat(1, 4), ALPHA_STYLE_HINT_PERCENT>>,
     <<Num(2), "other">>, <<NaN, ALPHA_STYLE_HINT_PERCENT>>}

\* the counts of getMonochromaticPalette: below 1, 1, 2, odd and even above 2
Counts == {-1, 0, 1, 2, 3, 4, 5}

\* the backgrounds of flatten that are texts
BackgroundTexts ==
    {White, Str(<<"n", "o", "t", "-", "a", "-", "c", "o", "l", "o", "r">>),
     Str(<<"#", "0", "0", "0", "0", "0", "0", "8", "0">>)}

\* the selectors of toString: those of its switch, in either case, and one it does not know
Formats ==
    {<<"h", "e", "x">>, <<"h", "e", "x", "a">>, <<"h", "e", "x", "s", "h", "o", "r", "t">>,
     <<"h", "e", "x", "a", "s", "h", "o", "r", "t">>, <<"r", "g", "b">>, <<"r", "g", "b", "a">>,
     <<"r", "g", "b", "l", "e", "g", "a", "c", "y">>,
     <<"r", "g", "b", "a", "l", "e", "g", "a", "c", "y">>, <<"h", "s", "l">>,
     <<"h", "s", "l", "a">>, <<"h", "s", "l", "l", "e", "g", "a", "c", "y">>,
     <<"h", "s", "l", "a", "l", "e", "g", "a", "c", "y">>, <<"o", "k", "l", "c", "h">>,
     <<"o", "k", "l", "c", "h", "a">>, <<"a", "u", "t", "o">>, <<"H", "S", "L", "A">>,
     <<"s", "h", "o", "r", "t", "e", "s", "t">>}

\* the alphas of the inputs of SpecSerialize
SerializeAlphas ==
    {NoTok, Tok(Rat(1, 2), Bare), Tok(Rat(201, 1000), Bare), Tok(Num(0), Bare), Tok(Num(1), Bare),
     Tok(Num(50), Pct), Tok(Rat(25, 2), Pct), Tok(Num(-5), Pct)}

\* an input with white space before it
Padded(d) == [d EXCEPT !.input = Str(<<" ">> \o d.input.chars)]

\* the inputs of SpecSerialize; the hsl texts are such that no channel of hslToRgb falls on a
\* half, where a double and a rational can round to different bytes
SerializeInputs ==
    {HslInput(lg, Tok(Num(330), Bare), Tok(Num(50), Pct), Tok(Num(50), Pct), a) :
        lg \in BOOLEAN, a \in SerializeAlphas}
    \cup {HslInput(FALSE, Tok(Num(210), Bare), Tok(Num(50), Pct), Tok(Num(40), Pct), NoTok),
          HslInput(FALSE, Tok(Num(0), Bare), Tok(Num(60), Pct), Tok(Num(15), Pct), NoTok)}
    \cup {RgbInput(lg, Tok(Num(17), Bare), Tok(Num(34), Bare), Tok(Num(51), Bare), a) :
            lg \in BOOLEAN, a \in SerializeAlphas}
    \cup {RgbInput(FALSE, Tok(Rat(255, 2), Bare), Tok(Num(204), Bare), Tok(Num(0), Bare), a) :
            a \in {NoTok, Tok(Rat(1, 2), Bare)}}
    \cup {OklchInput(Tok(Num(50), Pct), Tok(Rat(1, 10), Bare), Tok(Num(200), Bare), a) :
            a \in SerializeAlphas}
    \cup {OklchInput(Tok(Rat(7, 10), Bare), Tok(Num(25), Pct), Tok(Num(30), Bare), NoTok)}
    \cup {HexLongInput(<<"#">>, 255, G, 0, A, TRUE) : G \in {0, 1}, A \in {NoAlpha, <<0>>, <<170>>}}
    \cup {HexLongInput(<<"#">>, 26, 136, 204, <<128>>, FALSE),
          Hex0xInput(255, 1, 0, NoAlpha, FALSE), Hex0xInput(255, 1, 0, <<128>>, FALSE)}
    \cup {HexShortInput(<<"#">>, 15, 10, 9, A, FALSE) : A \in {NoAlpha, <<3>>}}
    \cup {Padded(HslInput(FALSE, Tok(Num(330), Bare), Tok(Num(50), Pct), Tok(Num(50), Pct), a)) :
            a \in {NoTok, Tok(Rat(1, 2), Bare)}}
    \cup {OtherInput("named", Str(<<"r", "e", "d">>)),
          OtherInput("named", Str(<<"t", "o", "m", "a", "t", "o">>)),
          OtherInput("named", Str(<<" ", "T", "r", "a", "n", "s", "p", "a", "r", "e", "n", "t", " ">>)),
          OtherInput("null", Null),
          OtherInput("unrecognized", Str(<<"n", "o", "t", "-", "a", "-", "c", "o", "l", "o", "r">>))}

\* the inputs of SpecInvalid
InvalidInputs ==
    {OtherInput("null", Null), OtherInput("nonstring", NonString), OtherInput("empty", Str(<<>>)),
     OtherInput("empty", Str(<<" ", " ">>)),
     OtherInput("unrecognized", Str(<<"n", "o", "t", "-", "a", "-", "c", "o", "l", "o", "r">>)),
     HslInput(FALSE, Tok(Num(0), Bare), Tok(Num(50), Bare), Tok(Num(50), Pct), NoTok),
     RgbInput(FALSE, RawTok(<<".">>, NaN, Bare), Tok(Num(204), Bare), Tok(Num(0), Bare), NoTok),
     HslInput(FALSE, Tok(Num(330), Bare), Tok(Num(50), Pct), Tok(Num(50), Pct), NoTok),
     RgbInput(FALSE, Tok(Num(17), Bare), Tok(Num(34), Bare), Tok(Num(51), Bare), Tok(Rat(1, 2), Bare))}

\* the inputs of SpecContrast: black, white, a gray, two chromatic colors, translucent and
\* transparent colors, and inputs that do not parse
ContrastInputs ==
    {HexLongInput(<<"#">>, 0, 0, 0, NoAlpha, FALSE), HexLongInput(<<"#">>, 255, 255, 255, NoAlpha, TRUE),
     HexLongInput(<<"#">>, 119, 119, 119, NoAlpha, FALSE),
     HslInput(FALSE, Tok(Num(330), Bare), Tok(Num(50), Pct), Tok(Num(50), Pct), NoTok),
     RgbInput(FALSE, Tok(Num(17), Bare), Tok(Num(34), Bare), Tok(Num(51), Bare), Tok(Rat(1, 2), Bare)),
     HexLongInput(<<"#">>, 0, 0, 0, <<128>>, FALSE), HexLongInput(<<"#">>, 255, 255, 255, <<0>>, FALSE),
     OtherInput("named", Str(<<"t", "o", "m", "a", "t", "o">>)),
     OtherInput("null", Null),
     OtherInput("unrecognized", Str(<<"n", "o", "t", "-", "a", "-", "c", "o", "l", "o", "r">>))}

\* the inputs of SpecFlatten: opaque and translucent colors with whole and with fractional
\* channels, a transparent color and an input that does not parse
FlattenInputs ==
    {HslInput(FALSE, Tok(Num(330), Bare), Tok(Num(50), Pct), Tok(Num(50), Pct), NoTok),
     RgbInput(FALSE, Tok(Num(17), Bare), Tok(Num(34), Bare), Tok(Num(51), Bare), Tok(Rat(1, 2), Bare)),
     RgbInput(FALSE, Tok(Num(17), Bare), Tok(Num(34), Bare), Tok(Num(51), Bare), Tok(Rat(1, 4), Bare)),
     HexLongInput(<<"#">>, 255, 0, 0, <<128>>, FALSE),
     HexLongInput(<<"#">>, 255, 255, 255, <<0>>, FALSE),
     RgbInput(FALSE, Tok(Rat(255, 2), Bare), Tok(Num(204), Bare), Tok(Num(0), Bare), NoTok),
     RgbInput(FALSE, Tok(Rat(255, 2), Bare), Tok(Num(204), Bare), Tok(Num(0), Bare), Tok(Rat(1, 2), Bare)),
     OtherInput("unrecognized", Str(<<"n", "o", "t", "-", "a", "-", "c", "o", "l", "o", "r">>))}

(***************************************************************************)
(* The state: the color objects the callers hold (heap), how each was      *)
(* obtained (meta), the array the last palette call returned (pal: the     *)
(* receiver of the call, and the entries, of which those that are the      *)
(* receiver itself are not copies but heap[pal.base]), the last call       *)
(* (last) and the number of calls made (calls).                            *)
(***************************************************************************)
VARIABLES heap, meta, pal, last, calls, search

\* The state of the theme editor: its six variables, the file the theme file input holds
\* (themeFile), the FileReader objects it created (readers), the last handler that ran (ran)
\* and the number of handlers run (handled).
VARIABLES palette, themeItems, filteredThemeItems, selectedPaletteColor, themeFileDoc,
          originalThemeFileName, themeFile, readers, ran, handled

\* the state of the theme editor
editor ==
    <<palette, themeItems, filteredThemeItems, selectedPaletteColor, themeFileDoc,
      originalThemeFileName, themeFile, readers, ran, handled>>

vars == <<heap, meta, pal, last, calls, search, editor>>

\* the state of the callers of the color objects
colors == <<heap, meta, pal, last, calls>>

\* the state that no operation on a color object touches: the frame of getMaxSRGBChroma and
\* the theme editor
outside == <<search, editor>>

NoPalette == [base |-> 0, kind |-> "none", items |-> <<>>]

Init ==
    /\ heap = <<>>
    /\ meta = <<>>
    /\ pal = NoPalette
    /\ last = [op |-> "none"]
    /\ calls = 0
    /\ search = [pc |-> "idle"]
    /\ palette = <<>>
    /\ themeItems = <<>>
    /\ filteredThemeItems = <<>>
    /\ selectedPaletteColor = Null
    /\ themeFileDoc = Null
    /\ originalThemeFileName = <<"T", "h", "e", "m", "e">>
    /\ themeFile = Null
    /\ readers = <<>>
    /\ ran = [op |-> "DOMContentLoaded"]
    /\ handled = 0

\* the construction of every input of the specifications, computed once
ParseTable ==
    [d \in ParseInputs \cup PairInputs \cup SpecInputs \cup SerializeInputs \cup InvalidInputs
           \cup ContrastInputs \cup FlattenInputs |->
        GoatColorInternal(d.input)]

\* GoatColor(d.input): new GoatColorInternal(d.input)
construct(d) == ParseTable[d]

Parse_c(d, c) ==
    /\ heap' = IF c.throw THEN heap ELSE Append(heap, c.obj)
    /\ meta' = IF c.throw THEN meta ELSE Append(meta, [via |-> "parse", d |-> d])
    /\ last' = [op |-> "parse", d |-> d, threw |-> c.throw, at |-> Len(heap) + 1]
    /\ calls' = calls + 1
    /\ UNCHANGED pal
    /\ UNCHANGED outside

\* c = GoatColor(d.input), while fewer than cap objects are held
Parse(d, cap) == Len(heap) < cap /\ Parse_c(d, construct(d))

\* parseHue(tok.txt), called on its own
ParseHueCall(tok) ==
    /\ last' = [op |-> "parseHue", tok |-> tok, ret |-> parseHue(tok.txt)]
    /\ UNCHANGED <<heap, meta, pal, calls>>
    /\ UNCHANGED outside

\* heap[i].setAlpha(x, hint)
SetAlpha(i, x, hint) ==
    /\ heap' = [heap EXCEPT ![i] = setAlpha(@, x, hint)]
    /\ last' = [op |-> "setAlpha", at |-> i, x |-> x, hint |-> hint]
    /\ calls' = calls + 1
    /\ UNCHANGED <<meta, pal>>
    /\ UNCHANGED outside

\* p[k].setAlpha(x, hint), p the array the last palette call returned
SetAlphaEntry(k, x, hint) ==
    /\ IF pal.items[k].isThis
       THEN /\ heap' = [heap EXCEPT ![pal.base] = setAlpha(@, x, hint)]
            /\ pal' = pal
       ELSE /\ pal' = [pal EXCEPT !.items[k].obj = setAlpha(@, x, hint)]
            /\ heap' = heap
    /\ last' = [op |-> "setAlphaEntry", at |-> k, x |-> x, hint |-> hint]
    /\ calls' = calls + 1
    /\ UNCHANGED meta
    /\ UNCHANGED outside

\* an argument that is left out
Omitted == [kind |-> "undefined"]

\* flatten(backgroundInput = "white"): the default stands for an argument left out
flatten_backgroundInput(backgroundInput) ==
    IF backgroundInput = Omitted THEN White ELSE backgroundInput

\* a flatten that composes in place: the receiver becomes opaque as well
Flatten_cap_inplace(i, bg, cap) ==
    /\ Len(heap) < cap
    /\ heap' = Append([heap EXCEPT ![i].a = Num(1)], flatten(heap[i], flatten_backgroundInput(bg)))
    /\ meta' = Append(meta, [via |-> "flatten", of |-> i])
    /\ last' = [op |-> "flatten", at |-> i, bg |-> bg]
    /\ calls' = calls + 1
    /\ UNCHANGED pal
    /\ UNCHANGED outside

\* f = heap[i].flatten(bg), or heap[i].flatten() when bg is left out, while fewer than cap
\* objects are held
Flatten_cap(i, bg, cap) ==
    /\ Len(heap) < cap
    /\ heap' = Append(heap, flatten(heap[i], flatten_backgroundInput(bg)))
    /\ meta' = Append(meta, [via |-> "flatten", of |-> i])
    /\ last' = [op |-> "flatten", at |-> i, bg |-> bg]
    /\ calls' = calls + 1
    /\ UNCHANGED pal
    /\ UNCHANGED outside

Flatten(i, bg) == Flatten_cap(i, bg, MaxColors)

\* an entry as the array holds it: the receiver by reference, a new object by itself
Entry(e) == IF e.isThis THEN [isThis |-> TRUE] ELSE [isThis |-> FALSE, obj |-> e.obj]

\* p = heap[i].get<kind>Palette(...), p the array returned, call the record of the call
SetPalette_call(i, kind, p, call) ==
    /\ pal' = [base |-> i, kind |-> kind, items |-> [k \in DOMAIN p |-> Entry(p[k])]]
    /\ last' = call
    /\ calls' = calls + 1
    /\ UNCHANGED <<heap, meta>>
    /\ UNCHANGED outside

SetPalette(i, kind, p) == SetPalette_call(i, kind, p, [op |-> kind, at |-> i])

Monochromatic(i, count) ==
    SetPalette_call(i, "monochromatic", getMonochromaticPalette(heap[i], count),
                    [op |-> "monochromatic", at |-> i, count |-> count])

Analogous(i, angle) == SetPalette(i, "analogous", getAnalogousPalette(heap[i], angle))

Complementary(i) == SetPalette(i, "complementary", getComplementaryPalette(heap[i]))

SplitComplementary(i, angle) ==
    SetPalette(i, "splitComplementary", getSplitComplementaryPalette(heap[i], angle))

Triadic(i) == SetPalette(i, "triadic", getTriadicPalette(heap[i]))

Tetradic(i, offsetAngle) == SetPalette(i, "tetradic", getTetradicPalette(heap[i], offsetAngle))

\* text.toString(format): the call is recorded, the text returned is Returned
ToStringCall(i, format) ==
    /\ last' = [op |-> "toString", at |-> i, format |-> format]
    /\ UNCHANGED <<heap, meta, pal, calls>>
    /\ UNCHANGED outside

\* the text the last call of toString returned
Returned == toString(heap[last.at], last.format)

\* an argument of getContrastRatio: the color object heap[x.at] or the text x.d.input, whose
\* construction is taken from the table
ContrastArgument(x) ==
    IF x.kind = "held" THEN Instance(heap[x.at]) ELSE Instance(construct(x.d).obj)

\* GoatColor.getContrastRatio(x, y): the call is recorded, the number returned is Ratio
ContrastRatio(x, y) ==
    /\ last' = [op |-> "getContrastRatio", x |-> x, y |-> y]
    /\ UNCHANGED <<heap, meta, pal, calls>>
    /\ UNCHANGED outside

\* the number the last call of getContrastRatio returned
Ratio == getContrastRatio(ContrastArgument(last.x), ContrastArgument(last.y))

\* the number it returns for the same arguments in the other order
RatioExchanged == getContrastRatio(ContrastArgument(last.y), ContrastArgument(last.x))

(***************************************************************************)
(* SpecParse: the callers construct colors from texts.                     *)
(***************************************************************************)
SpecParseNext == \E d \in ParseInputs : Parse(d, MaxParsed)

SpecParse == Init /\ [][SpecParseNext]_vars

(***************************************************************************)
(* SpecPair: the callers construct colors from hsl() texts, to compare.    *)
(***************************************************************************)
SpecPairNext == \E d \in PairInputs : Parse(d, MaxPair)

SpecPair == Init /\ [][SpecPairNext]_vars

(***************************************************************************)
(* SpecHue: the hue-unit parser on its own.                                *)
(***************************************************************************)
SpecHueNext == \E tok \in HueCallTokens : ParseHueCall(tok)

SpecHue == Init /\ [][SpecHueNext]_vars

(***************************************************************************)
(* Spec: the callers construct colors and call their methods.              *)
(***************************************************************************)
\* the callers make at most MaxCalls calls
Budget == calls < MaxCalls

Next ==
    \/ \E d \in SpecInputs : Budget /\ Parse(d, MaxColors)
    \/ \E i \in DOMAIN heap, xh \in AlphaArgs : Budget /\ SetAlpha(i, xh[1], xh[2])
    \/ \E k \in DOMAIN pal.items, xh \in AlphaArgs : Budget /\ SetAlphaEntry(k, xh[1], xh[2])
    \/ \E i \in DOMAIN heap :
          \E bg \in BackgroundTexts \cup {Instance(heap[j]) : j \in DOMAIN heap} :
             Budget /\ Flatten(i, bg)
    \/ \E i \in DOMAIN heap, count \in Counts : Budget /\ Monochromatic(i, count)
    \/ \E i \in DOMAIN heap : Budget /\ Analogous(i, Num(30))
    \/ \E i \in DOMAIN heap : Budget /\ Complementary(i)
    \/ \E i \in DOMAIN heap : Budget /\ SplitComplementary(i, Num(30))
    \/ \E i \in DOMAIN heap : Budget /\ Triadic(i)
    \/ \E i \in DOMAIN heap : Budget /\ Tetradic(i, Num(60))

Spec == Init /\ [][Next]_vars

(***************************************************************************)
(* SpecSerialize: the callers construct colors from texts and serialize    *)
(* them.                                                                   *)
(***************************************************************************)
SpecSerializeNext ==
    \/ \E d \in SerializeInputs : Parse(d, MaxParsed)
    \/ \E i \in DOMAIN heap, format \in Formats : ToStringCall(i, format)

SpecSerialize == Init /\ [][SpecSerializeNext]_vars

(***************************************************************************)
(* SpecInvalid: the callers construct colors, most of them from texts that *)
(* do not parse, flatten them and serialize what they hold.                *)
(***************************************************************************)
SpecInvalidNext ==
    \/ \E d \in InvalidInputs : Parse(d, MaxParsed)
    \/ \E i \in DOMAIN heap, bg \in BackgroundTexts : Flatten(i, bg)
    \/ \E i \in DOMAIN heap, format \in Formats : ToStringCall(i, format)

SpecInvalid == Init /\ [][SpecInvalidNext]_vars

(***************************************************************************)
(* SpecContrast: the callers construct colors and ask for the contrast of  *)
(* texts and of the colors they hold.                                      *)
(***************************************************************************)
\* the arguments the callers pass: each text, and each color held
ContrastArguments ==
    {[kind |-> "text", d |-> d] : d \in ContrastInputs}
    \cup {[kind |-> "held", at |-> i] : i \in DOMAIN heap}

SpecContrastNext ==
    \/ \E d \in ContrastInputs : Parse(d, MaxParsed)
    \/ \E x \in ContrastArguments, y \in ContrastArguments : ContrastRatio(x, y)

SpecContrast == Init /\ [][SpecContrastNext]_vars

(***************************************************************************)
(* SpecMonochromatic: the callers construct a color, set its alpha,        *)
(* flatten it over white and ask what they hold for monochromatic          *)
(* palettes.                                                               *)
(***************************************************************************)
MonoInputs ==
    {HslInput(FALSE, Tok(Num(330), Bare), Tok(Num(50), Pct), Tok(Num(50), Pct), NoTok),
     HexLongInput(<<"#">>, 255, 0, 0, <<128>>, FALSE),
     HexLongInput(<<"#">>, 119, 119, 119, NoAlpha, FALSE)}

MonoBudget == calls < MaxMonoCalls

SpecMonochromaticNext ==
    \/ \E d \in MonoInputs : MonoBudget /\ Parse(d, MaxParsed)
    \/ \E i \in DOMAIN heap, xh \in AlphaArgs : MonoBudget /\ SetAlpha(i, xh[1], xh[2])
    \/ \E i \in DOMAIN heap : MonoBudget /\ Flatten(i, White)
    \/ \E i \in DOMAIN heap, count \in Counts : MonoBudget /\ Monochromatic(i, count)

SpecMonochromatic == Init /\ [][SpecMonochromaticNext]_vars

(***************************************************************************)
(* SpecChroma: the callers ask for the greatest chroma; a call runs pass   *)
(* by pass to its return before the next one starts.                       *)
(***************************************************************************)
\* the arguments lOklch, hOklch, chromaSliderMax, precision, iterations of the calls
ChromaArguments ==
    {<<Num(50), Num(30), <<2, 5>>, <<1, 2000>>, 20>>,
     <<Num(70), Num(200), <<2, 5>>, <<1, 2000>>, 20>>,
     <<Num(30), Num(120), <<2, 5>>, <<1, 2000>>, 20>>,
     <<Num(90), Num(100), <<1, 2>>, <<1, 1000>>, 20>>,
     <<Num(50), Num(-330), <<2, 5>>, <<1, 10>>, 20>>,
     <<Num(50), Num(30), <<2, 5>>, <<1, 2000>>, 3>>,
     <<Num(50), Num(30), <<2, 5>>, <<1, 2000>>, 0>>,
     <<Num(50), Num(30), <<2, 5>>, <<1, 2000>>, -1>>,
     <<Num(50), Num(30), <<2, 5>>, Num(0), 12>>,
     <<Num(50), Num(30), <<2, 5>>, Num(-1), 5>>,
     <<Num(50), Num(30), Num(0), <<1, 2000>>, 20>>,
     <<Num(50), Num(30), Num(0), Num(0), 3>>,
     <<Num(50), Num(30), Num(-1), Num(0), 3>>,
     <<Num(50), Num(30), Num(-1), <<1, 2000>>, 4>>,
     <<<<1, 1000>>, Num(30), <<2, 5>>, <<1, 2000>>, 20>>,
     <<<<99999, 1000>>, Num(30), <<2, 5>>, <<1, 2000>>, 20>>,
     <<<<1, 2000>>, Num(30), <<2, 5>>, <<1, 2000>>, 20>>,
     <<Num(0), Num(30), <<2, 5>>, <<1, 2000>>, 20>>,
     <<Num(100), Num(30), <<2, 5>>, <<1, 2000>>, 20>>,
     <<Num(-5), Num(30), <<2, 5>>, <<1, 2000>>, 20>>,
     <<Num(120), Num(30), <<2, 5>>, <<1, 2000>>, 20>>,
     <<NaN, Num(30), <<2, 5>>, <<1, 2000>>, 4>>,
     <<Num(50), NaN, <<2, 5>>, <<1, 2000>>, 20>>}

\* the statement a call at frame f runs next: the body of the loop while i < iterations, the
\* return after the loop or after a break
getMaxSRGBChroma_next(f) ==
    IF f.pc = "loop" /\ f.i < f.iterations THEN getMaxSRGBChroma_body(f)
    ELSE getMaxSRGBChroma_return(f)

RECURSIVE ChromaFrames(_)
\* the frames a call goes through from the frame f
ChromaFrames(f) ==
    IF f.pc = "done" THEN {f} ELSE {f} \cup ChromaFrames(getMaxSRGBChroma_next(f))

\* the next frame of every frame of the calls of the specification, computed once
ChromaTable ==
    [f \in UNION {ChromaFrames(getMaxSRGBChroma(args[1], args[2], args[3], args[4], args[5])) :
                      args \in ChromaArguments} |->
        IF f.pc = "done" THEN f ELSE getMaxSRGBChroma_next(f)]

\* GoatColor.getMaxSRGBChroma(...args) is called and runs to the test of its loop (or to an
\* early return); no call is running
ChromaCall(args) ==
    /\ search.pc \in {"idle", "done"}
    /\ search' = getMaxSRGBChroma(args[1], args[2], args[3], args[4], args[5])
    /\ UNCHANGED colors
    /\ UNCHANGED editor

\* i < iterations holds and the body of the loop runs once
ChromaPass ==
    /\ search.pc = "loop" /\ search.i < search.iterations
    /\ search' = ChromaTable[search]
    /\ UNCHANGED colors
    /\ UNCHANGED editor

\* the loop is left, by its test or by a break, and the call returns
ChromaReturn ==
    /\ \/ search.pc = "loop" /\ ~(search.i < search.iterations)
       \/ search.pc = "return"
    /\ search' = ChromaTable[search]
    /\ UNCHANGED colors
    /\ UNCHANGED editor

SpecChromaNext ==
    \/ \E args \in ChromaArguments : ChromaCall(args)
    \/ ChromaPass
    \/ ChromaReturn

SpecChroma == Init /\ [][SpecChromaNext]_vars

\* a call that is running is not left waiting: the engine runs it to its return
SpecChromaLive == SpecChroma /\ WF_vars(ChromaPass) /\ WF_vars(ChromaReturn)

(***************************************************************************)
(* SpecFlatten: the callers construct colors, opaque and translucent, with *)
(* whole and with fractional channels, and flatten them over texts, over   *)
(* the colors they hold and over the default.                              *)
(***************************************************************************)
\* the backgrounds the callers pass: none, each text, and each color held
FlattenBackgrounds ==
    {Omitted} \cup BackgroundTexts \cup {Instance(heap[j]) : j \in DOMAIN heap}

SpecFlattenNext ==
    \/ \E d \in FlattenInputs : Parse(d, MaxPair)
    \/ \E i \in DOMAIN heap, bg \in FlattenBackgrounds : Flatten_cap(i, bg, MaxFlattened)

SpecFlatten == Init /\ [][SpecFlattenNext]_vars

(***************************************************************************)
(* The theme editor: its files, its functions and its handlers.  A theme   *)
(* document is the sequence of its elements, each with a name, which       *)
(* stands for its place in the order of names, and a value attribute; an   *)
(* item refers to its element by the place of the element in the document. *)
(***************************************************************************)
\* the content of a file: well-formed XML with elements, XML that does not parse, or nothing
Xml(elements) == [kind |-> "xml", elements |-> elements]

MalformedXml == [kind |-> "parsererror"]

EmptyContent == [kind |-> "empty"]

File(name, content) == [name |-> name, content |-> content]

\* the attribute value="..." an element of a theme carries, under the name of the element
Element(name, value) == [name |-> name, value |-> value]

\* str.lastIndexOf(c) of a character c that str includes, counted from 0
lastIndexOf(str, c) ==
    (CHOOSE i \in DOMAIN str : str[i] = c /\ \A j \in (i + 1)..Len(str) : str[j] # c) - 1

\* nameParts = file.name.split('.'); if (nameParts.length > 1) nameParts.pop(); nameParts.join('.')
onchange_nameParts(name) ==
    IF includes(name, ".") THEN substring(name, 0, lastIndexOf(name, ".")) ELSE name

\* nameParts.join('.') || file.name
onchange_originalThemeFileName(name, joined) == IF joined = <<>> THEN name ELSE joined

\* new FileReader() with readAsText(file) started
FileReader(of, file) == [of |-> of, file |-> file, readyState |-> "LOADING", error |-> Null]

\* themeItems.sort((a, b) => a.name.localeCompare(b.name))
sortByName(items) ==
    Unkeyed(SortByKey([i \in DOMAIN items |-> [key |-> Num(items[i].name), e |-> items[i]]]))

\* filterThemeItems() with an empty filter input: the color items, by name; the entries are
\* the items themselves, written as their places in themeItems
filterThemeItems_filtered(items, filtered) ==
    Unkeyed(SortByKey([i \in DOMAIN filtered |->
                          [key |-> Num(items[filtered[i]].name), e |-> filtered[i]]]))

filterThemeItems_isColor(items, i) == items[i].isColor

filterThemeItems(items) ==
    filterThemeItems_filtered(items,
        SelectSeq([i \in DOMAIN items |-> i], LAMBDA i : filterThemeItems_isColor(items, i)))

\* items.push({ id, name, currentColorHex, colorInfo, el, attributeName, isColor: true })
parseGenericThemeFile_item(length, element, el, parsedColor) ==
    [id |-> length, name |-> element.name, currentColorHex |-> parsedColor.hex,
     colorInfo |-> parsedColor, el |-> el, attributeName |-> "value", isColor |-> TRUE]

parseGenericThemeFile_push(elements, parsed, found) ==
    [j \in DOMAIN found |->
        parseGenericThemeFile_item(j - 1, elements[found[j]], found[j], parsed[found[j]])]

parseGenericThemeFile_parsed(elements, parsed) ==
    parseGenericThemeFile_push(elements, parsed,
        SelectSeq([k \in DOMAIN elements |-> k], LAMBDA k : parsed[k] # Null))

\* parseGenericThemeFile(xml): the document and an item for every attribute that is a color
parseGenericThemeFile(xml) ==
    IF xml.kind = "parsererror" THEN [doc |-> Null, items |-> <<>>]
    ELSE [doc |-> [elements |-> xml.elements],
          items |-> parseGenericThemeFile_parsed(xml.elements,
                        [k \in DOMAIN xml.elements |-> parseColorString(xml.elements[k].value)])]

\* parsePalette(xml): name and normalized hex of every myColor element
parsePalette(xml) ==
    IF xml.kind = "parsererror" THEN <<>>
    ELSE [k \in DOMAIN xml.elements |->
             [name |-> xml.elements[k].name, hex |-> normalizeHex(xml.elements[k].value)]]

\* what updateItemColor returns, the item and the document as it leaves them
updateItemColor_done(ret, item, doc) == [ret |-> ret, item |-> item, doc |-> doc]

updateItemColor_formattedValue(item, doc, newColorInfo, formattedValue) ==
    updateItemColor_done(TRUE,
        [item EXCEPT !.colorInfo = [newColorInfo EXCEPT !.originalString = formattedValue],
                     !.currentColorHex = newColorInfo.hex],
        [doc EXCEPT !.elements[item.el].value = formattedValue])

updateItemColor_format(item, doc, newColorInfo) ==
    updateItemColor_formattedValue(item, doc, newColorInfo, formatColorForOutput(newColorInfo))

\* if (item.colorInfo.originalHadExplicitAlpha) { setAlpha(item.colorInfo.alpha); alpha = ... }
updateItemColor_originalHadExplicitAlpha(item, newColorInfo) ==
    IF item.colorInfo.originalHadExplicitAlpha
    THEN [newColorInfo EXCEPT
            !.goatColor = setAlpha(@, item.colorInfo.alpha, ALPHA_STYLE_HINT_PERCENT),
            !.alpha = item.colorInfo.alpha]
    ELSE newColorInfo

\* if (!newColorString.trim().includes('(')): the format of the item is kept
updateItemColor_inherit(item, newColorString, newColorInfo) ==
    IF ~includes(trim(newColorString), "(")
    THEN updateItemColor_originalHadExplicitAlpha(item,
             [newColorInfo EXCEPT !.inputFormat = item.colorInfo.inputFormat,
                                  !.originalPrefix = item.colorInfo.originalPrefix,
                                  !.originalUsesCommas = item.colorInfo.originalUsesCommas])
    ELSE newColorInfo

updateItemColor_newColorInfo(item, doc, newColorString, newColorInfo) ==
    IF newColorInfo = Null THEN updateItemColor_done(FALSE, item, doc)
    ELSE updateItemColor_format(item, doc, updateItemColor_inherit(item, newColorString, newColorInfo))

\* updateItemColor(item, newColorString), item.el an element of doc
updateItemColor(item, doc, newColorString) ==
    updateItemColor_newColorInfo(item, doc, newColorString, parseColorString(newColorString))

\* the state of the library, which no handler of the editor touches
library == <<colors, search>>

\* themeFileEl.onchange with a file chosen
ThemeFileChange(file) ==
    /\ themeFile' = file
    /\ originalThemeFileName' =
           onchange_originalThemeFileName(file.name, onchange_nameParts(file.name))
    /\ readers' = Append(readers, FileReader("theme", file))
    /\ ran' = [op |-> "themeFileEl.onchange", file |-> file.name]
    /\ handled' = handled + 1
    /\ UNCHANGED <<palette, themeItems, filteredThemeItems, selectedPaletteColor, themeFileDoc>>
    /\ UNCHANGED library

\* themeFileEl.onchange with no file chosen
ThemeFileChangeNone ==
    /\ themeFile' = Null
    /\ originalThemeFileName' = <<"T", "h", "e", "m", "e">>
    /\ themeItems' = <<>>
    /\ themeFileDoc' = Null
    /\ filteredThemeItems' = filterThemeItems(<<>>)
    /\ ran' = [op |-> "themeFileEl.onchange", file |-> Null]
    /\ handled' = handled + 1
    /\ UNCHANGED <<palette, selectedPaletteColor, readers>>
    /\ UNCHANGED library

ThemeReaderLoad_items(doc, items) ==
    /\ themeFileDoc' = doc
    /\ themeItems' = items
    /\ filteredThemeItems' = filterThemeItems(items)

ThemeReaderLoad_result(result) ==
    ThemeReaderLoad_items(result.doc, sortByName(result.items))

\* reader.onload of the reader k of a theme file: an empty result is reported and dropped
ThemeReaderLoad(k) ==
    /\ readers[k].of = "theme"
    /\ readers[k].readyState = "LOADING"
    /\ readers' = [readers EXCEPT ![k].readyState = "DONE"]
    /\ IF readers[k].file.content.kind = "empty"
       THEN UNCHANGED <<themeFileDoc, themeItems, filteredThemeItems>>
       ELSE ThemeReaderLoad_result(parseGenericThemeFile(readers[k].file.content))
    /\ ran' = [op |-> "reader.onload", reader |-> k]
    /\ handled' = handled + 1
    /\ UNCHANGED <<palette, selectedPaletteColor, originalThemeFileName, themeFile>>
    /\ UNCHANGED library

\* reader.onerror of the reader k, of a theme or of a palette: the error is reported
ReaderError(k) ==
    /\ readers[k].readyState = "LOADING"
    /\ readers' = [readers EXCEPT ![k].readyState = "DONE", ![k].error = [kind |-> "NotReadableError"]]
    /\ ran' = [op |-> "reader.onerror", reader |-> k]
    /\ handled' = handled + 1
    /\ UNCHANGED <<palette, themeItems, filteredThemeItems, selectedPaletteColor, themeFileDoc,
                   originalThemeFileName, themeFile>>
    /\ UNCHANGED library

\* paletteFileEl.onchange with a file chosen
PaletteFileChange(file) ==
    /\ readers' = Append(readers, FileReader("palette", file))
    /\ ran' = [op |-> "paletteFileEl.onchange", file |-> file.name]
    /\ handled' = handled + 1
    /\ UNCHANGED <<palette, themeItems, filteredThemeItems, selectedPaletteColor, themeFileDoc,
                   originalThemeFileName, themeFile>>
    /\ UNCHANGED library

\* reader.onload of the reader k of a palette file
PaletteReaderLoad(k) ==
    /\ readers[k].of = "palette"
    /\ readers[k].readyState = "LOADING"
    /\ readers' = [readers EXCEPT ![k].readyState = "DONE"]
    /\ palette' = IF readers[k].file.content.kind = "empty" THEN palette
                  ELSE parsePalette(readers[k].file.content)
    /\ ran' = [op |-> "reader.onload", reader |-> k]
    /\ handled' = handled + 1
    /\ UNCHANGED <<themeItems, filteredThemeItems, selectedPaletteColor, themeFileDoc,
                   originalThemeFileName, themeFile>>
    /\ UNCHANGED library

\* palette.some(p => p.hex === newHex)
addCustomColor_isDuplicate(newHex) == \E k \in DOMAIN palette : palette[k].hex = newHex

addCustomColor_newHex(colorStr, newHex) ==
    IF addCustomColor_isDuplicate(newHex) THEN palette
    ELSE Append(palette, [name |-> colorStr, hex |-> newHex])

addCustomColor_newColor(colorStr, newColor) ==
    IF newColor.valid
    THEN addCustomColor_newHex(colorStr, toUpperCase(substring(toHex(newColor), 1, 7)))
    ELSE palette

addCustomColor_colorStr(colorStr) ==
    IF colorStr = <<>> THEN palette
    ELSE addCustomColor_newColor(colorStr, GoatColorInternal(Str(colorStr)).obj)

\* addCustomColor() with value in the custom color input
AddCustomColor(value) ==
    /\ palette' = addCustomColor_colorStr(trim(value))
    /\ ran' = [op |-> "addCustomColor", value |-> value]
    /\ handled' = handled + 1
    /\ UNCHANGED <<themeItems, filteredThemeItems, selectedPaletteColor, themeFileDoc,
                   originalThemeFileName, themeFile, readers>>
    /\ UNCHANGED library

\* palette.filter(p => p.hex !== hexToDelete)
deleteColorFromPalette_kept(hexToDelete, p) == p.hex # hexToDelete

deleteColorFromPalette(hexToDelete) ==
    SelectSeq(palette, LAMBDA p : deleteColorFromPalette_kept(hexToDelete, p))

\* deleteBtn.onclick of the entry k of the palette as it is rendered
DeleteColorFromPalette(k) ==
    /\ palette' = deleteColorFromPalette(palette[k].hex)
    /\ ran' = [op |-> "deleteColorFromPalette", hex |-> palette[k].hex]
    /\ handled' = handled + 1
    /\ UNCHANGED <<themeItems, filteredThemeItems, selectedPaletteColor, themeFileDoc,
                   originalThemeFileName, themeFile, readers>>
    /\ UNCHANGED library

\* d.onclick of a swatch: selectedPaletteColor = { name, hex }
Click(name, hex) ==
    /\ selectedPaletteColor' = [name |-> name, hex |-> hex]
    /\ ran' = [op |-> "d.onclick", hex |-> hex]
    /\ handled' = handled + 1
    /\ UNCHANGED <<palette, themeItems, filteredThemeItems, themeFileDoc, originalThemeFileName,
                   themeFile, readers>>
    /\ UNCHANGED library

\* the swatch of the entry k of the palette
ClickPaletteColor(k) == Click(palette[k].name, palette[k].hex)

\* grayHexesWithHash, without the "#"
grayHexes == {<<HexDigits[i], HexDigits[i], HexDigits[i], HexDigits[i], HexDigits[i], HexDigits[i]>> :
                 i \in 1..16}

\* the swatch of a built-in gray
ClickGray(grayHexNoHash) ==
    Click(<<"#">> \o toUpperCase(grayHexNoHash), toUpperCase(grayHexNoHash))

RECURSIVE bulkAssign_updated(_, _, _, _, _)

\* filteredThemeItems.forEach(item => { if (item.isColor) updateItemColor(item, newColorStr) })
bulkAssign_forEach(items, doc, filtered, newColorStr) ==
    IF filtered = <<>> THEN [items |-> items, doc |-> doc]
    ELSE bulkAssign_updated(items, doc, filtered, newColorStr,
                            updateItemColor(items[Head(filtered)], doc, newColorStr))

bulkAssign_updated(items, doc, filtered, newColorStr, done) ==
    bulkAssign_forEach([items EXCEPT ![Head(filtered)] = done.item], done.doc, Tail(filtered),
                       newColorStr)

BulkAssign_done(done) ==
    /\ themeItems' = done.items
    /\ themeFileDoc' = done.doc

\* bulkAssignBtnElement.onclick
BulkAssign ==
    /\ IF selectedPaletteColor = Null \/ selectedPaletteColor.hex = <<>> \/ filteredThemeItems = <<>>
       THEN UNCHANGED <<themeItems, themeFileDoc>>
       ELSE BulkAssign_done(bulkAssign_forEach(themeItems, themeFileDoc, filteredThemeItems,
                                               <<"#">> \o selectedPaletteColor.hex))
    /\ ran' = [op |-> "bulkAssignBtnElement.onclick", selected |-> selectedPaletteColor]
    /\ handled' = handled + 1
    /\ UNCHANGED <<palette, filteredThemeItems, selectedPaletteColor, originalThemeFileName,
                   themeFile, readers>>
    /\ UNCHANGED library

UpdateItemColor_done(i, newColorString, done) ==
    /\ themeItems' = [themeItems EXCEPT ![i] = done.item]
    /\ themeFileDoc' = done.doc
    /\ ran' = [op |-> "updateItemColor", item |-> i, newColorString |-> newColorString,
               ret |-> done.ret]

\* valueInput.onchange of the row k with the text newColorString: updateItemColor(item, text)
UpdateItemColor(k, newColorString) ==
    /\ UpdateItemColor_done(filteredThemeItems[k], newColorString,
           updateItemColor(themeItems[filteredThemeItems[k]], themeFileDoc, newColorString))
    /\ handled' = handled + 1
    /\ UNCHANGED <<palette, filteredThemeItems, selectedPaletteColor, originalThemeFileName,
                   themeFile, readers>>
    /\ UNCHANGED library

\* exportXml(): the download it starts, its name without the time stamp
ExportXml ==
    /\ ran' = [op |-> "exportXml",
               download |-> IF themeFileDoc = Null THEN Null
                            ELSE [filename |-> originalThemeFileName, xml |-> themeFileDoc]]
    /\ handled' = handled + 1
    /\ UNCHANGED <<palette, themeItems, filteredThemeItems, selectedPaletteColor, themeFileDoc,
                   originalThemeFileName, themeFile, readers>>
    /\ UNCHANGED library

(***************************************************************************)
(* SpecThemeFile: the user picks theme files, or none, the reads end in    *)
(* any order, with the text of the file or with an error, and the user     *)
(* exports.                                                                *)
(***************************************************************************)
\* two themes, a file that is not XML and a file with nothing in it
ThemeFiles ==
    {File(<<"a", ".", "x", "m", "l">>, Xml(<<Element(1, <<"#", "F", "F", "0", "0", "0", "0">>)>>)),
     File(<<"b", ".", "v", "2", ".", "x", "m", "l">>,
          Xml(<<Element(2, <<"0", "x", "8", "0", "1", "1", "2", "2", "3", "3">>),
                Element(1, <<"#", "0", "0", "F">>), Element(3, <<"1", "2", "p", "x">>)>>)),
     File(<<".", "t", "x", "t">>, MalformedXml),
     File(<<"e", "m", "p", "t", "y">>, EmptyContent)}

HandlerBudget == handled < MaxHandled

SpecThemeFileNext ==
    \/ \E file \in ThemeFiles : HandlerBudget /\ Len(readers) < MaxReaders /\ ThemeFileChange(file)
    \/ HandlerBudget /\ ThemeFileChangeNone
    \/ \E k \in DOMAIN readers : HandlerBudget /\ ThemeReaderLoad(k)
    \/ \E k \in DOMAIN readers : HandlerBudget /\ ReaderError(k)
    \/ HandlerBudget /\ ExportXml

SpecThemeFile == Init /\ [][SpecThemeFileNext]_vars

(***************************************************************************)
(* SpecItemColor: the user picks a theme file whose elements carry a color *)
(* of every family, the read ends, and the user types texts into the value *)
(* inputs of the rows.                                                     *)
(***************************************************************************)
\* themes with colors written as hex, short hex, hex with alpha, 0x hex with and without
\* alpha, hex without prefix, rgb modern and legacy, a named color, hsl modern and legacy, oklch
ItemFiles ==
    {File(<<"h", "e", "x", ".", "x", "m", "l">>,
          Xml(<<Element(2, <<"#", "F", "8", "0">>),
                Element(1, <<"#", "F", "F", "8", "0", "0", "0">>),
                Element(3, <<"#", "F", "F", "8", "0", "0", "0", "8", "0">>)>>)),
     File(<<"n", "u", "m", ".", "x", "m", "l">>,
          Xml(<<Element(2, <<"0", "x", "8", "0", "F", "F", "8", "0", "0", "0">>),
                Element(1, <<"0", "x", "F", "F", "8", "0", "0", "0">>),
                Element(3, <<"F", "F", "8", "0", "0", "0">>)>>)),
     File(<<"r", "g", "b", ".", "x", "m", "l">>,
          Xml(<<Element(2, <<"r", "g", "b", "a", "(", "1", "7", ",", " ", "3", "4", ",", " ", "5", "1", ",", " ", "0", ".", "5", ")">>),
                Element(1, <<"r", "g", "b", "(", "1", "7", " ", "3", "4", " ", "5", "1", ")">>),
                Element(3, <<"t", "o", "m", "a", "t", "o">>)>>)),
     File(<<"h", "s", "l", ".", "x", "m", "l">>,
          Xml(<<Element(2, <<"h", "s", "l", "a", "(", "3", "3", "0", ",", " ", "5", "0", "%", ",", " ", "5", "0", "%", ",", " ", "0", ".", "5", ")">>),
                Element(1, <<"h", "s", "l", "(", "3", "3", "0", " ", "5", "0", "%", " ", "5", "0", "%", ")">>),
                Element(3, <<"o", "k", "l", "c", "h", "(", "5", "0", "%", " ", "0", ".", "1", " ", "2", "0", "0", ")">>)>>))}

\* the texts typed: a hex, a hex with alpha, rgb with alpha after a space, hsl, and a text that
\* is no color
ItemTexts ==
    {<<"#", "1", "2", "3", "4", "5", "6">>,
     <<"#", "1", "1", "2", "2", "3", "3", "8", "0">>,
     <<" ", "r", "g", "b", "(", "1", " ", "2", " ", "3", " ", "/", " ", "0", ".", "2", "5", ")">>,
     <<"h", "s", "l", "(", "1", "2", "0", " ", "1", "0", "0", "%", " ", "2", "5", "%", ")">>,
     <<"n", "o", "t", "-", "a", "-", "c", "o", "l", "o", "r">>}

ItemBudget == handled < MaxItemHandled

SpecItemColorNext ==
    \/ \E file \in ItemFiles : ItemBudget /\ Len(readers) < MaxItemReaders /\ ThemeFileChange(file)
    \/ \E k \in DOMAIN readers : ItemBudget /\ ThemeReaderLoad(k)
    \/ \E k \in DOMAIN filteredThemeItems, newColorString \in ItemTexts :
          ItemBudget /\ UpdateItemColor(k, newColorString)

SpecItemColor == Init /\ [][SpecItemColorNext]_vars

(***************************************************************************)
(* SpecPalette: the user imports palettes, adds and deletes colors, clicks *)
(* swatches, loads a theme and assigns the selected color to its items.    *)
(***************************************************************************)
\* a palette with two entries of one hex and a third color, and a file that is not XML
PaletteFiles ==
    {File(<<"p", ".", "x", "m", "l">>,
          Xml(<<Element(<<"R", "e", "d">>, <<"#", "F", "F", "0", "0", "0", "0">>), Element(<<"A", "l", "s", "o", " ", "r", "e", "d">>, <<"f", "f", "0", "0", "0", "0">>),
                Element(<<"B", "l", "u", "e">>, <<"h", "s", "l", "(", "2", "4", "0", " ", "1", "0", "0", "%", " ", "5", "0", "%", ")">>)>>)),
     File(<<"n", "o", "t", "e", "s", ".", "t", "x", "t">>, MalformedXml)}

\* the texts of the custom color input: a hex, a name of the same color, a short hex in lower
\* case between spaces, a text that is no color, and nothing
CustomColorTexts ==
    {<<"#", "F", "F", "0", "0", "0", "0">>, <<"r", "e", "d">>, <<" ", "#", "0", "0", "f", " ">>,
     <<"n", "o", "p", "e">>, <<>>}

\* the grays clicked
GrayChoices == {g \in grayHexes : g[1] \in {"0", "f"}}

\* the theme loaded
PaletteThemeFiles ==
    {File(<<"t", ".", "x", "m", "l">>, Xml(<<Element(1, <<"#", "A", "B", "C", "D", "E", "F">>), Element(2, <<"r", "g", "b", "a", "(", "1", "7", ",", " ", "3", "4", ",", " ", "5", "1", ",", " ", "0", ".", "5", ")">>)>>))}

PaletteBudget == handled < MaxPaletteHandled

SpecPaletteNext ==
    \/ \E file \in PaletteFiles :
          PaletteBudget /\ Len(readers) < MaxPaletteReaders /\ PaletteFileChange(file)
    \/ \E k \in DOMAIN readers : PaletteBudget /\ PaletteReaderLoad(k)
    \/ \E file \in PaletteThemeFiles :
          PaletteBudget /\ Len(readers) < MaxPaletteReaders /\ ThemeFileChange(file)
    \/ \E k \in DOMAIN readers : PaletteBudget /\ ThemeReaderLoad(k)
    \/ \E value \in CustomColorTexts : PaletteBudget /\ AddCustomColor(value)
    \/ \E k \in DOMAIN palette : PaletteBudget /\ DeleteColorFromPalette(k)
    \/ \E k \in DOMAIN palette : PaletteBudget /\ ClickPaletteColor(k)
    \/ \E g \in GrayChoices : PaletteBudget /\ ClickGray(g)
    \/ PaletteBudget /\ BulkAssign

SpecPalette == Init /\ [][SpecPaletteNext]_vars

\* the object the last call of parse constructed
Constructed == heap[Len(heap)]

\* C1: every construction completes without throwing, and every object constructed is
\* either valid with no error or invalid with an error message that is not empty
C1_ParseTotal ==
    /\ last.op = "parse" => ~last.threw /\ last.at = Len(heap)
    /\ \A i \in DOMAIN heap :
          \/ heap[i].valid /\ heap[i].error = null
          \/ ~heap[i].valid /\ heap[i].error # null /\ heap[i].error # ""

C1_Witness ==
    /\ last.op = "parse" /\ last.d.fam = "oklch" /\ IsNaN(last.d.t1.val) /\ ~last.threw
    /\ ~Constructed.valid
    /\ Constructed.error = "Invalid OKLCH format: Invalid OKLCH Lightness value."

(***************************************************************************)
(* The colors a state of Spec holds: the objects of the heap and the new   *)
(* objects of the array the last palette call returned.                    *)
(***************************************************************************)
Colors ==
    {heap[i] : i \in DOMAIN heap}
    \cup {pal.items[k].obj : k \in {n \in DOMAIN pal.items : ~pal.items[n].isThis}}

\* the object that entry k of the array is
EntryObject(k) == IF pal.items[k].isThis THEN heap[pal.base] ELSE pal.items[k].obj

\* C2: a color whose parse failed is invalid whatever was called on it since, and no color
\* is valid with an error that is not null
C2_InvalidStaysInvalid ==
    /\ \A i \in DOMAIN heap :
          meta[i].via = "parse" /\ ~construct(meta[i].d).obj.valid => ~heap[i].valid
    /\ \A c \in Colors : ~(c.valid /\ c.error # null)

\* C3: every valid color stores r, g, b within [0, 255] and a within [0, 1], none of them NaN
C3_ValidInRange ==
    \A c \in Colors :
        c.valid =>
            /\ RLe(Num(0), c.r) /\ RLe(c.r, Num(255))
            /\ RLe(Num(0), c.g) /\ RLe(c.g, Num(255))
            /\ RLe(Num(0), c.b) /\ RLe(c.b, Num(255))
            /\ RLe(Num(0), c.a) /\ RLe(c.a, Num(1))

\* C4: setAlpha on a color a palette call or flatten returned leaves the alpha and the style
\* hint of the base as they were, and setAlpha on the base leaves every color returned as it was
C4_NoSharing ==
    [][/\ calls' = calls + 1 /\ last'.op = "setAlphaEntry" =>
            /\ heap'[pal.base].a = heap[pal.base].a
            /\ heap'[pal.base]._alphaInputStyleHint = heap[pal.base]._alphaInputStyleHint
       /\ calls' = calls + 1 /\ last'.op = "setAlpha" =>
            /\ last'.at = pal.base => \A k \in DOMAIN pal.items : EntryObject(k)' = EntryObject(k)
            /\ \A j \in DOMAIN heap : j # last'.at => heap'[j] = heap[j]]_vars

\* x mod 360 of a number x: the representative within [0, 360)
Mod360(x) == RSub(x, Num(360 * ((x[1] \div x[2]) \div 360)))

\* the degrees the hue-unit parser is to return for the number n with the unit suffix
DegreesOf(n, suffix) ==
    IF suffix \in {Bare, <<"d", "e", "g">>} THEN Mod360(n)
    ELSE IF suffix = <<"t", "u", "r", "n">> THEN Mod360(RMul(Num(360), n))
    ELSE IF suffix = <<"g", "r", "a", "d">> THEN Mod360(RMul(<<9, 10>>, n))
    ELSE Mod360(RDiv(RMul(Num(180), n), MathPI))

\* C5: parseHue returns n mod 360 for n and for n + "deg", (360 n) mod 360 for n + "turn",
\* (0.9 n) mod 360 for n + "grad", (180 n / pi) mod 360 for n + "rad", and 0 for a number
\* with a unit it does not know
C5_HueUnits ==
    last.op = "parseHue" /\ ~IsNaN(last.tok.val) =>
        /\ last.tok.sfx \in {Bare, <<"d", "e", "g">>, <<"r", "a", "d">>, <<"g", "r", "a", "d">>,
                             <<"t", "u", "r", "n">>}
              => last.ret = DegreesOf(last.tok.val, last.tok.sfx)
        /\ last.tok.sfx = <<"x", "y", "z">> => last.ret = Num(0)

\* x - y is a multiple of 360
Congruent360(x, y) == RSub(x, y)[2] = 1 /\ RSub(x, y)[1] % 360 = 0

\* C6: two hsl() texts that differ only in hues congruent modulo 360 yield the same r, g, b, a
C6_HueCongruence ==
    \A i \in DOMAIN heap, j \in DOMAIN heap :
        /\ meta[i].d.legacy = meta[j].d.legacy
        /\ Congruent360(meta[i].d.t1.val, meta[j].d.t1.val)
        /\ meta[i].d.t2 = meta[j].d.t2 /\ meta[i].d.t3 = meta[j].d.t3
        /\ meta[i].d.alpha = meta[j].d.alpha
        => /\ heap[i].valid /\ heap[j].valid
           /\ heap[i].r = heap[j].r /\ heap[i].g = heap[j].g /\ heap[i].b = heap[j].b
           /\ heap[i].a = heap[j].a

\* hsl(-30 50% 50%) and hsl(330 50% 50%) are both held, and are the same color
C6_Witness ==
    /\ Len(heap) = 2
    /\ meta[1].d = HslInput(FALSE, Tok(Num(-30), Bare), Tok(Num(50), Pct), Tok(Num(50), Pct), NoTok)
    /\ meta[2].d = HslInput(FALSE, Tok(Num(330), Bare), Tok(Num(50), Pct), Tok(Num(50), Pct), NoTok)
    /\ heap[1].valid /\ heap[1].r = Num(191) /\ heap[1].g = Num(64) /\ heap[1].b = Num(128)
    /\ heap[2].r = Num(191) /\ heap[2].g = Num(64) /\ heap[2].b = Num(128)

\* the byte a hex input writes for a channel: the byte itself, or 17 times the digit
ByteOf(d, v) == IF d.form = "short" THEN 17 * v ELSE v

\* the same bytes in the other family: 0xAARRGGBB for #RRGGBBAA and the reverse
OtherFamily(d) ==
    IF d.fam = "hex" THEN Hex0xInput(d.R, d.G, d.B, d.A, FALSE)
    ELSE HexLongInput(<<"#">>, d.R, d.G, d.B, d.A, FALSE)

SameColor(o1, o2) ==
    /\ o1.valid = o2.valid /\ o1.r = o2.r /\ o1.g = o2.g /\ o1.b = o2.b /\ o1.a = o2.a

\* C7: a hex text and a 0x text are valid with r = R, g = G, b = B and a = A / 255, or a = 1
\* without an alpha byte; #RRGGBBAA and 0xAARRGGBB are the same color; a digit d of the short
\* forms is the byte 17 d
C7_HexForms ==
    \A i \in DOMAIN heap :
        meta[i].d.fam \in {"hex", "0x"} =>
            /\ heap[i].valid /\ heap[i].error = null
            /\ heap[i].r = Num(ByteOf(meta[i].d, meta[i].d.R))
            /\ heap[i].g = Num(ByteOf(meta[i].d, meta[i].d.G))
            /\ heap[i].b = Num(ByteOf(meta[i].d, meta[i].d.B))
            /\ heap[i].a = IF meta[i].d.A = NoAlpha THEN Num(1)
                           ELSE Rat(ByteOf(meta[i].d, meta[i].d.A[1]), 255)
            /\ meta[i].d.form = "long" =>
                  SameColor(heap[i], GoatColorInternal(OtherFamily(meta[i].d).input).obj)

\* 0x331a0000 is parsed: the alpha 0x33 leads
C7_Witness ==
    /\ last.op = "parse" /\ last.d = Hex0xInput(26, 0, 0, <<51>>, FALSE)
    /\ Constructed.valid /\ Constructed.r = Num(26) /\ Constructed.a = <<1, 5>>
    /\ SameColor(Constructed, GoatColorInternal(HexLongInput(<<"#">>, 26, 0, 0, <<51>>, FALSE).input).obj)

\* the color is invalid and carries an error message that is not empty
Failed(o) == ~o.valid /\ o.error # null /\ o.error # ""

\* C8: an hsl() text whose saturation or lightness lacks the % suffix is invalid with an
\* error message, and so are the texts "not-a-color" and ""
C8_PercentRequired ==
    \A i \in DOMAIN heap :
        /\ meta[i].d.fam = "hsl" /\ (meta[i].d.t2.sfx # Pct \/ meta[i].d.t3.sfx # Pct)
              => Failed(heap[i])
        /\ meta[i].d.input \in {Str(<<"n", "o", "t", "-", "a", "-", "c", "o", "l", "o", "r">>),
                                Str(<<>>)}
              => Failed(heap[i])

\* hsl(0 50 50) is parsed and fails in the HSL branch
C8_Witness ==
    /\ last.op = "parse"
    /\ last.d.input = Str(<<"h", "s", "l", "(", "0", " ", "5", "0", " ", "5", "0", ")">>)
    /\ ~Constructed.valid
    /\ Constructed.error =
          "Invalid HSL format: Invalid HSL saturation/lightness value: '%' unit is required."

\* x within [lo, hi]: lo below lo, hi above hi
Within(x, lo, hi) == IF RLt(x, lo) THEN lo ELSE IF RLt(hi, x) THEN hi ELSE x

\* C9: in a valid color parsed from an rgb, hsl or oklch text, an alpha that is not written
\* gives a = 1 and no style hint, p% gives a = p within [0, 100] over 100 and the hint
\* percent, a bare x gives a = x within [0, 1] and the hint number; a lies within [0, 1]
C9_AlphaParsing ==
    /\ parseAlpha(Undefined) = [value |-> Num(1), styleHint |-> null]
    /\ parseAlpha(<<>>) = [value |-> Num(1), styleHint |-> null]
    /\ \A i \in DOMAIN heap :
           meta[i].d.fam \in {"rgb", "hsl", "oklch"} /\ heap[i].valid =>
               /\ RLe(Num(0), heap[i].a) /\ RLe(heap[i].a, Num(1))
               /\ IF meta[i].d.alpha = NoTok
                  THEN heap[i].a = Num(1) /\ heap[i]._alphaInputStyleHint = null
                  ELSE IF meta[i].d.alpha.sfx = Pct
                  THEN /\ heap[i].a = RDiv(Within(meta[i].d.alpha.val, Num(0), Num(100)), Num(100))
                       /\ heap[i]._alphaInputStyleHint = ALPHA_STYLE_HINT_PERCENT
                  ELSE /\ heap[i].a = Within(meta[i].d.alpha.val, Num(0), Num(1))
                       /\ heap[i]._alphaInputStyleHint = ALPHA_STYLE_HINT_NUMBER

\* rgb(17 34 51 / 12.5%) is parsed: a is 1/8, the hint is percent
C9_Witness ==
    /\ last.op = "parse" /\ last.d.fam = "rgb" /\ ~last.d.legacy
    /\ last.d.alpha = Tok(Rat(25, 2), Pct)
    /\ Constructed.valid /\ Constructed.a = <<1, 8>>
    /\ Constructed._alphaInputStyleHint = ALPHA_STYLE_HINT_PERCENT

\* the byte of the rounded channel x is written with two equal hex digits
DoubledByte(x) == MathRound(x)[1] % 17 = 0

\* the color parsed from the text a serializer returned
Reparsed(text) == GoatColorInternal(Str(text)).obj

\* the r, g, b of o1 are the rounded r, g, b of o2
SameBytes(o1, o2) ==
    o1.valid /\ o1.r = MathRound(o2.r) /\ o1.g = MathRound(o2.g) /\ o1.b = MathRound(o2.b)

\* the alpha a byte of hex text keeps of a
ByteAlpha(a) == RDiv(MathRound(RMul(a, Num(255))), Num(255))

\* short hex of a valid opaque color is a text exactly when its three bytes have two equal
\* digits each, and "hexshort" is the long form when it is not
ShortHexAvailability(o) ==
    o.valid /\ o.a = Num(1) =>
        /\ toHexShort(o) # NullText <=> DoubledByte(o.r) /\ DoubledByte(o.g) /\ DoubledByte(o.b)
        /\ toHexShort(o) = NullText => toString_hexshort(o) = toHex(o)

Serialized == heap[last.at]

\* the index of the "/" of a text that has one
SlashOf(text) == CHOOSE k \in DOMAIN text : text[k] = "/"

\* the alpha of a text of the modern syntax: what stands between "/ " and ")"
AlphaTextOf(text) == SubSeq(text, SlashOf(text) + 2, Len(text) - 1)

HasChar(text, ch) == \E k \in DOMAIN text : text[k] = ch

\* toString was called for rgba, hsla or oklcha on a valid color with alpha below 1
ModernAlphaCase ==
    /\ last.op = "toString"
    /\ toLowerCase(last.format) \in {<<"r", "g", "b", "a">>, <<"h", "s", "l", "a">>,
                                      <<"o", "k", "l", "c", "h", "a">>}
    /\ Serialized.valid
    /\ RLt(Serialized.a, Num(1))

\* with the hint NUMBER the text is the alpha rounded to three decimals, one half being half,
\* with any other hint the alpha in percent rounded to a whole number, one half being 50%
AlphaTextFollowsHint(o, t, half) ==
    IF IsWithinEpsilon(o.a) THEN t = <<"0">>
    ELSE IF o._alphaInputStyleHint = ALPHA_STYLE_HINT_NUMBER
    THEN /\ ~HasChar(t, "%")
         /\ parseFloat(t) = round(o.a, 3)
         /\ o.a = Rat(1, 2) => t = half
    ELSE /\ t[Len(t)] = "%"
         /\ parseFloat(SubSeq(t, 1, Len(t) - 1)) = round(RMul(o.a, Num(100)), 0)
         /\ o.a = Rat(1, 2) => t = <<"5", "0", "%">>

SerializedFamily == meta[last.at].d.fam

Auto == <<"a", "u", "t", "o">>

\* toString("auto") was called on a valid color with alpha in [0, 1)
AutoAlphaCase ==
    /\ last.op = "toString"
    /\ last.format = Auto
    /\ Serialized.valid
    /\ RLe(Num(0), Serialized.a)
    /\ RLt(Serialized.a, Num(1))

\* the alpha form of the family of the source text, the RGBA form when it has none
FamilyAlphaForm(o, fam) ==
    CASE fam = "oklch" -> toOklchaString(o)
      [] fam = "hsl" -> toHslaString(o, FALSE)
      [] OTHER -> toRgbaString(o, FALSE)

\* C12: toString("auto") of a valid color with alpha in [0, 1) is the short hexa form when
\* there is one, otherwise the alpha form of the family of the source text (oklch, hsl, rgb),
\* otherwise the RGBA form
C12_AutoAlphaForm ==
    AutoAlphaCase =>
        Returned = IF toHexaShort(Serialized) # NullText
                   THEN toHexaShort(Serialized)
                   ELSE FamilyAlphaForm(Serialized, SerializedFamily)

\* the selectors toString has a case for
KnownFormats == {f \in Formats : toLowerCase(f) # <<"s", "h", "o", "r", "t", "e", "s", "t">>}

\* the opaque form of the family of the source text, the long hex when it has none
FamilyOpaqueForm(o, fam) ==
    CASE fam = "oklch" -> toOklchString(o)
      [] fam = "hsl" -> toHslString(o, FALSE)
      [] fam = "rgb" -> toRgbString(o, FALSE)
      [] OTHER -> toHex(o)

\* C13: toString("auto") of a valid color with alpha 1 is the short hex when there is one,
\* otherwise the opaque form of the family of the source text (oklch, hsl, rgb), and the long
\* hex for a hex, 0x or named source; a selector toString does not know behaves as "auto"
C13_AutoOpaqueForm ==
    /\ last.op = "toString" /\ last.format = Auto /\ Serialized.valid /\ Serialized.a = Num(1)
          => Returned = IF toHexShort(Serialized) # NullText
                        THEN toHexShort(Serialized)
                        ELSE FamilyOpaqueForm(Serialized, SerializedFamily)
    /\ last.op = "toString" /\ last.format \notin KnownFormats
          => Returned = toString(Serialized, Auto)

\* the source the color heap[i] was constructed from: the argument of GoatColor, and none
\* for the color a call of flatten returned
SourceOf(i) == IF meta[i].via = "parse" THEN meta[i].d.input ELSE Null

\* the literals returned for a color without a source: the one of the comment of toString and
\* the message of the construction from null
FixedLiterals == {<<"Invalid Color">>, <<"Input color is null or undefined.">>}

\* toString was called on an invalid color
InvalidCase == last.op = "toString" /\ ~Serialized.valid

\* C14: toString of an invalid color returns, whatever the selector, the source text unchanged
\* when the color has one and a fixed literal when it has none, the invalid color that
\* flatten returns for an invalid color included
C14_InvalidSerialization ==
    InvalidCase =>
        CASE SourceOf(last.at).kind = "string" -> Returned = SourceOf(last.at).chars
          [] SourceOf(last.at).kind = "null" -> Returned \in FixedLiterals
          [] OTHER -> Returned = <<"String(input)">>

\* the selector of the family and syntax of the input d that carries the alpha
MatchingFormat(d) ==
    CASE d.fam = "hex" -> <<"h", "e", "x", "a">>
      [] d.fam = "rgb" /\ d.legacy -> <<"r", "g", "b", "a", "l", "e", "g", "a", "c", "y">>
      [] d.fam = "rgb" /\ ~d.legacy -> <<"r", "g", "b", "a">>
      [] d.fam = "hsl" /\ d.legacy -> <<"h", "s", "l", "a", "l", "e", "g", "a", "c", "y">>
      [] d.fam = "hsl" /\ ~d.legacy -> <<"h", "s", "l", "a">>
      [] d.fam = "oklch" -> <<"o", "k", "l", "c", "h", "a">>
      [] OTHER -> <<>>

\* a valid color parsed from a #-hex, rgb, hsl or oklch text was serialized in its family
RoundTripCase ==
    /\ last.op = "toString"
    /\ Serialized.valid
    /\ last.format = MatchingFormat(meta[last.at].d)

\* p is valid and has the rounded r, g, b and the alpha of o
SameRoundedColor(o, p) ==
    /\ p.valid
    /\ MathRound(p.r) = MathRound(o.r)
    /\ MathRound(p.g) = MathRound(o.g)
    /\ MathRound(p.b) = MathRound(o.b)
    /\ p.a = o.a

\* C15: a text of the #-hex, rgb, hsl or oklch family that parses, serialized in its family
\* and parsed again, gives the same rounded r, g, b and the same alpha
C15_RoundTrip == RoundTripCase => SameRoundedColor(Serialized, Reparsed(Returned))

(***************************************************************************)
(* flatten (C16).                                                          *)
(***************************************************************************)
\* the color the last call of flatten was made on, and the color it returned
Flattened == heap[last.at]

\* o2 has the r, g, b and the alpha of o1
SameRgba(o1, o2) == o1.r = o2.r /\ o1.g = o2.g /\ o1.b = o2.b /\ o1.a = o2.a

\* the backgrounds a caller can pass: the texts, and the colors held
Backgrounds == BackgroundTexts \cup {Instance(heap[j]) : j \in DOMAIN heap}

\* C16: flatten of a valid color with alpha 1 is, whatever the background, a valid color with
\* alpha 1 and the rounded r, g, b of the receiver; and flatten of what flatten returned for a
\* valid color has, for every background, the same r, g, b and alpha
C16_FlattenOpaque ==
    last.op = "flatten" /\ Flattened.valid =>
        /\ Flattened.a = Num(1) =>
              /\ Constructed.valid
              /\ Constructed.a = Num(1)
              /\ Constructed.r = MathRound(Flattened.r)
              /\ Constructed.g = MathRound(Flattened.g)
              /\ Constructed.b = MathRound(Flattened.b)
        /\ \A bg2 \in Backgrounds :
              flatten(Constructed, bg2).valid /\ SameRgba(flatten(Constructed, bg2), Constructed)

\* hsl(330 50% 50%), which is opaque, was flattened: the color returned is 191, 64, 128 opaque
C16_Witness ==
    /\ last.op = "flatten"
    /\ meta[last.at].via = "parse" /\ meta[last.at].d.fam = "hsl"
    /\ Flattened.valid /\ Flattened.a = Num(1)
    /\ Constructed.valid /\ Constructed.a = Num(1)
    /\ Constructed.r = Num(191) /\ Constructed.g = Num(64) /\ Constructed.b = Num(128)

(***************************************************************************)
(* The contrast ratio (C17, C18).                                          *)
(***************************************************************************)
\* the colors of the arguments of the last call of getContrastRatio
ContrastFirst == ContrastArgument(last.x).obj

ContrastSecond == ContrastArgument(last.y).obj

\* getContrastRatio was called on two valid colors
ContrastCase == last.op = "getContrastRatio" /\ ContrastFirst.valid /\ ContrastSecond.valid

BlackText == [kind |-> "text", d |-> HexLongInput(<<"#">>, 0, 0, 0, NoAlpha, FALSE)]

WhiteText == [kind |-> "text", d |-> HexLongInput(<<"#">>, 255, 255, 255, NoAlpha, TRUE)]

\* the call was getContrastRatio("#000000", "#FFFFFF")
BlackOnWhite == last.op = "getContrastRatio" /\ last.x = BlackText /\ last.y = WhiteText

\* C17, as the code has it: the ratio of two valid colors with alpha 1 does not depend on their
\* order, and the ratio of #000000 and #FFFFFF is 21
C17_ContrastSymmetricOpaque ==
    /\ ContrastCase /\ ContrastFirst.a = Num(1) /\ ContrastSecond.a = Num(1)
          => Ratio = RatioExchanged
    /\ BlackOnWhite => Ratio = Num(21)

\* the ratio of hsl(330 50% 50%) and #000000 was asked for, in this order
C17_Witness ==
    /\ ContrastCase
    /\ last.x.kind = "text" /\ last.x.d.fam = "hsl"
    /\ last.y = BlackText
    /\ RLt(Num(1), Ratio)
    /\ Ratio = RatioExchanged

\* C17, as the specification has it: the ratio of two valid colors does not depend on their
\* order, whatever their alpha
C17_ContrastSymmetric ==
    /\ ContrastCase => Ratio = RatioExchanged
    /\ BlackOnWhite => Ratio = Num(21)

C18_InvalidObject ==
    /\ last.op = "getContrastRatio"
    /\ last.x.kind = "held" /\ ~ContrastFirst.valid
    /\ ContrastSecond.valid
    /\ Ratio = Num(1)

(***************************************************************************)
(* The palettes by rotation of the hue (C19, C20).                         *)
(***************************************************************************)
\* the color at index k (from 1) of the array the last palette call returned
PaletteItem(k) == IF pal.items[k].isThis THEN heap[pal.base] ELSE pal.items[k].obj

\* its normalized HSL hue
ItemHue(k) == _normalizeHue(toHsl(PaletteItem(k)).h)

\* the array is in ascending order of normalized hue
AscendingHue == \A k \in 1..(Len(pal.items) - 1) : RLe(ItemHue(k), ItemHue(k + 1))

\* the palettes whose array the code sorts
SortedKinds == {"analogous", "splitComplementary", "triadic", "tetradic"}

\* the last call was a palette call of one of kinds on a valid color
PaletteCase(kinds) == last.op \in kinds /\ heap[last.at].valid

\* C19, as the code has it: analogous, splitComplementary, triadic and tetradic return their
\* colors in ascending order of normalized HSL hue; complementary returns the base first and
\* its complement second, whatever their hues
C19_RotationsSortedByHue ==
    /\ PaletteCase(SortedKinds) => AscendingHue
    /\ PaletteCase({"complementary"}) =>
          /\ Len(pal.items) = 2
          /\ pal.items[1].isThis
          /\ ~pal.items[2].isThis

\* triadic was called on hsl(330 50% 50%): the base, of the greatest hue, is the last of three
C19_Witness ==
    /\ PaletteCase({"triadic"})
    /\ meta[last.at].via = "parse" /\ meta[last.at].d.fam = "hsl"
    /\ Len(pal.items) = 3
    /\ pal.items[3].isThis
    /\ RLt(ItemHue(1), ItemHue(2)) /\ RLt(ItemHue(2), ItemHue(3))

\* C19, as the specification has it: complementary too returns its colors in ascending order
\* of normalized HSL hue
C19_AllSortedByHue == PaletteCase(SortedKinds \cup {"complementary"}) => AscendingHue

\* the r, g, b of o are whole numbers
WholeChannels(o) == o.r[2] = 1 /\ o.g[2] = 1 /\ o.b[2] = 1

\* o is a gray: its r, g, b are equal and its HSL hue is 0
Gray(o) == o.r = o.g /\ o.g = o.b

\* the receiver of the last palette call
Base == heap[last.at]

\* C20, as the code has it: complementary of a valid color has two entries, the receiver and a
\* new color; when the r, g, b of the receiver are whole numbers and not all equal the HSL hue
\* of the entry at index 1 is (hue + 180) mod 360, and when the receiver is a gray, whose hue
\* is 0, the entry at index 1 is the same gray and its hue is 0
C20_ComplementOfChromatic ==
    PaletteCase({"complementary"}) =>
        /\ Len(pal.items) = 2
        /\ pal.items[1].isThis
        /\ WholeChannels(Base) /\ ~Gray(Base)
              => ItemHue(2) = _normalizeHue(RAdd(toHsl(Base).h, Num(180)))
        /\ WholeChannels(Base) /\ Gray(Base)
              => ItemHue(2) = Num(0) /\ SameBytes(PaletteItem(2), Base)

\* complementary was called on hsl(330 50% 50%), of hue 329.76...: the entry at index 1 has
\* the hue 149.76...
C20_Witness ==
    /\ PaletteCase({"complementary"})
    /\ meta[last.at].via = "parse" /\ meta[last.at].d.fam = "hsl"
    /\ RLt(Num(329), toHsl(Base).h)
    /\ RLt(Num(149), ItemHue(2)) /\ RLt(ItemHue(2), Num(150))
    /\ ItemHue(2) = RSub(toHsl(Base).h, Num(180))

\* C20, as the specification has it: the hue of the entry at index 1 is (hue + 180) mod 360
\* for every valid receiver
C20_ComplementOfAny ==
    PaletteCase({"complementary"}) =>
        /\ Len(pal.items) = 2
        /\ ItemHue(2) = _normalizeHue(RAdd(toHsl(Base).h, Num(180)))

(***************************************************************************)
(* The triad (C21).                                                        *)
(***************************************************************************)
\* the distance of two hues on the hue circle, from the difference d of their degrees
HueDistance_d(d) == IF RLt(Num(180), d) THEN RSub(Num(360), d) ELSE d

HueDistance(x, y) == HueDistance_d(RAbs(RSub(x, y)))

\* the hues of the array are pairwise at least 100 degrees apart
HuesApart ==
    \A j \in DOMAIN pal.items, k \in DOMAIN pal.items :
        j < k => RLe(Num(100), HueDistance(ItemHue(j), ItemHue(k)))

\* C21, as the code has it: triadic of a valid color has three entries; when the r, g, b of
\* the receiver are whole numbers and not all equal their HSL hues are pairwise at least 100
\* degrees apart on the hue circle, and when the receiver is a gray the three entries are
\* that gray, of hue 0
C21_TriadicOfChromatic ==
    PaletteCase({"triadic"}) =>
        /\ Len(pal.items) = 3
        /\ WholeChannels(Base) /\ ~Gray(Base) => HuesApart
        /\ WholeChannels(Base) /\ Gray(Base) =>
              \A k \in DOMAIN pal.items : ItemHue(k) = Num(0) /\ SameBytes(PaletteItem(k), Base)

\* triadic was called on rgb(17 34 51 / 0.5), of hue 210: the array holds the hues 90, 210
\* and 330
C21_Witness ==
    /\ PaletteCase({"triadic"})
    /\ meta[last.at].via = "parse" /\ meta[last.at].d.fam = "rgb"
    /\ Len(pal.items) = 3
    /\ ItemHue(1) = Num(90) /\ ItemHue(2) = Num(210) /\ ItemHue(3) = Num(330)
    /\ pal.items[2].isThis

\* C21, as the specification has it: the three hues are pairwise at least 100 degrees apart
\* for every valid receiver, the grays included
C21_TriadicOfAny == PaletteCase({"triadic"}) => Len(pal.items) = 3 /\ HuesApart

(***************************************************************************)
(* The monochromatic palette (C22).                                        *)
(***************************************************************************)
\* the HSL lightness of the entry at index k
ItemLightness(k) == toHsl(PaletteItem(k)).l

\* the array is in non-decreasing order of HSL lightness
NonDecreasingLightness ==
    \A k \in 1..(Len(pal.items) - 1) : RLe(ItemLightness(k), ItemLightness(k + 1))

\* the entries of the array that are the receiver itself
BaseEntries == {k \in DOMAIN pal.items : pal.items[k].isThis}

\* C22: monochromatic(c, N) of a valid c and N >= 1 returns N entries in non-decreasing order
\* of HSL lightness, one of which is c itself; of an invalid c, or for N < 1, it returns c alone
C22_Monochromatic ==
    last.op = "monochromatic" =>
        /\ Base.valid /\ last.count >= 1 =>
              /\ Len(pal.items) = last.count
              /\ NonDecreasingLightness
              /\ Cardinality(BaseEntries) = 1
        /\ ~Base.valid \/ last.count < 1 => pal.items = <<[isThis |-> TRUE]>>

\* the r, g, b of the receiver are numbers
NumericChannels(o) == ~IsNaN(o.r) /\ ~IsNaN(o.g) /\ ~IsNaN(o.b)

\* what holds of monochromatic for every receiver, and the order too when its r, g, b are
\* numbers
C22_MonochromaticOfNumeric ==
    last.op = "monochromatic" =>
        /\ Base.valid /\ last.count >= 1 =>
              /\ Len(pal.items) = last.count
              /\ NumericChannels(Base) => NonDecreasingLightness
              /\ Cardinality(BaseEntries) = 1
        /\ ~Base.valid \/ last.count < 1 => pal.items = <<[isThis |-> TRUE]>>

(***************************************************************************)
(* The search for the greatest chroma (C23, C24).                          *)
(***************************************************************************)
\* a call of getMaxSRGBChroma is running
Running == search.pc \in {"loop", "return"}

\* the step is a pass of the loop body
PassStep == search.pc = "loop" /\ search'.pc \in {"loop", "return"} /\ search'.passes = search.passes + 1

\* the pass leaves the loop
Stops == search'.pc = "return"

\* the pass leaves [low, high] shorter than it was
Narrows == RLt(RSub(search'.high, search'.low), RSub(search.high, search.low))

\* the pass leaves the interval as it was, an interval of one point under a precision that is
\* not positive
Idles ==
    /\ search.low = search.high /\ ~RLt(Num(0), search.precision)
    /\ search'.low = search.low /\ search'.high = search.high

\* the loop has run at most `iterations` passes, and what was returned is a number
WithinCap ==
    /\ search.pc # "idle" => search.passes <= MaxNat(0, search.iterations)
    /\ search.pc = "done" => ~IsNaN(search.ret)

UpperBound == MathMax(Num(0), search.args[3])

\* the call has reached its loop
Searching == search.pc \in {"loop", "return"} \/ (search.pc = "done" /\ search.passes > 0)

\* 0 <= low <= high <= max(0, chromaUpperBound), and the running best is 0 or the last midpoint
\* that passed the round-trip check
SearchInterval ==
    /\ RLe(Num(0), search.low) /\ RLe(search.low, search.high) /\ RLe(search.high, UpperBound)
    /\ \/ search.maxAchievableC = Num(0)
       \/ search.passed # NoMidpoint /\ search.maxAchievableC = search.passed

\* the value returned is within [0, max(0, chromaUpperBound)]
ReturnedWithin == RLe(Num(0), search.ret) /\ RLe(search.ret, UpperBound)

\* getMaxSRGBChroma(50, 30, 0.4) has returned
ReturnedFor50 ==
    /\ search.pc = "done"
    /\ search.args = <<Num(50), Num(30), <<2, 5>>>> /\ search.precision = <<1, 2000>>
    /\ search.iterations = 20

\* the call returned 0 without a pass of its loop
ReturnedZeroAtOnce == search.pc = "done" /\ search.passes = 0 /\ search.ret = Num(0)

\* C24, as the code has it: throughout the search 0 <= low <= high <= max(0, upper bound) and
\* the running best is 0 or a midpoint that passed the round-trip check; the value returned is
\* within [0, max(0, upper bound)], and for (50, 30, 0.4) oklch(50% <result> 30) parses as
\* valid; a lightness below 0.001 or above 99.999 (after the clamp to [0, 100]) or a NaN hue
\* returns 0 without searching, and at 0.001 and at 99.999 themselves the search runs
C24_SearchInterval ==
    /\ search.pc \in {"loop", "return"} => SearchInterval
    /\ search.pc = "done" => ReturnedWithin
    /\ ReturnedFor50 =>
          GoatColorInternal(getMaxSRGBChroma_text(Num(50), NumberToString(search.ret),
                                                  Num(30))).obj.valid
    /\ /\ search.pc # "idle"
       /\ \/ RLt(search.lOklch, <<1, 1000>>) \/ RLt(<<99999, 1000>>, search.lOklch)
          \/ IsNaN(search.hOklch)
       => ReturnedZeroAtOnce
    /\ search.pc # "idle" /\ search.lOklch \in {<<1, 1000>>, <<99999, 1000>>}
          /\ ~IsNaN(search.hOklch) => Searching

\* getMaxSRGBChroma(50, 30, 0.4) returned 0.2078125 after 10 passes
C24_Witness ==
    /\ ReturnedFor50
    /\ search.passes = 10 /\ search.ret = <<133, 640>> /\ search.passed = search.ret
    /\ RLt(Num(0), search.ret) /\ RLt(search.ret, <<2, 5>>)

\* C24, as the specification has it: every lightness outside the open interval
\* (0.001, 99.999), the two ends included, returns 0 without searching
C24_OutsideOpenInterval ==
    /\ search.pc \in {"loop", "return"} => SearchInterval
    /\ search.pc = "done" => ReturnedWithin
    /\ /\ search.pc # "idle"
       /\ \/ RLe(search.lOklch, <<1, 1000>>) \/ RLe(<<99999, 1000>>, search.lOklch)
          \/ IsNaN(search.hOklch)
       => ReturnedZeroAtOnce

(***************************************************************************)
(* C25: flatten of a valid color with alpha below 1.                       *)
(***************************************************************************)
\* the receiver of the last flatten and the color it returned
FlattenReceiver == heap[last.at]

FlattenResult == heap[Len(heap)]

\* the last call was flatten on a valid color with alpha below 1
FlattenedTranslucent ==
    /\ last.op = "flatten"
    /\ FlattenReceiver.valid
    /\ RLt(FlattenReceiver.a, Num(1))

\* the color the background argument of the last flatten denotes
GivenBackground ==
    IF last.bg = Omitted THEN WhiteColor
    ELSE IF last.bg.kind = "instance" THEN last.bg.obj
    ELSE GoatColorInternal(last.bg).obj

\* round(fg*a + bg*(1-a))
Composite(fg, a, bg) == MathRound(RAdd(RMul(fg, a), RMul(bg, RSub(Num(1), a))))

\* a channel of bg': white when b is invalid, b over white when its alpha is below 1, b itself
\* when it is opaque
UsedBackground(b, channel) ==
    IF ~b.valid THEN Num(255)
    ELSE IF RLt(b.a, Num(1)) THEN Composite(channel, b.a, Num(255))
    ELSE channel

Between(x, p, q) == (RLe(p, x) /\ RLe(x, q)) \/ (RLe(q, x) /\ RLe(x, p))

CompositeOfChannels(f, b, res) ==
    /\ res.r = Composite(f.r, f.a, UsedBackground(b, b.r))
    /\ res.g = Composite(f.g, f.a, UsedBackground(b, b.g))
    /\ res.b = Composite(f.b, f.a, UsedBackground(b, b.b))

BetweenChannels(f, b, res) ==
    /\ Between(res.r, f.r, UsedBackground(b, b.r))
    /\ Between(res.g, f.g, UsedBackground(b, b.g))
    /\ Between(res.b, f.b, UsedBackground(b, b.b))

BetweenRoundedChannels(f, b, res) ==
    /\ Between(res.r, MathRound(f.r), MathRound(UsedBackground(b, b.r)))
    /\ Between(res.g, MathRound(f.g), MathRound(UsedBackground(b, b.g)))
    /\ Between(res.b, MathRound(f.b), MathRound(UsedBackground(b, b.b)))

SetAlphaStep == calls' = calls + 1 /\ last'.op = "setAlpha"

\* the alpha and the style hint the claim gives the color after setAlpha(x, hint)
SetAlphaEffect(before, after, x, hint) ==
    /\ after.a = clamp(x, Num(0), Num(1))
    /\ after._alphaInputStyleHint =
           IF hint \in {ALPHA_STYLE_HINT_NUMBER, ALPHA_STYLE_HINT_PERCENT}
           THEN hint ELSE ALPHA_STYLE_HINT_PERCENT

\* r, g, b, validity, error and source text are as before
SetAlphaFrame(before, after) ==
    /\ after.r = before.r
    /\ after.g = before.g
    /\ after.b = before.b
    /\ after.valid = before.valid
    /\ after.error = before.error
    /\ after.input = before.input

\* every field besides the six of the frame, the alpha and the style hint is as before
SetAlphaNothingElse(before, after) ==
    after = [before EXCEPT !.a = after.a, !._alphaInputStyleHint = after._alphaInputStyleHint,
                           !.valid = after.valid, !.error = after.error]

SetAlphaOnValid(i) ==
    heap[i].valid =>
        /\ SetAlphaEffect(heap[i], heap'[i], last'.x, last'.hint)
        /\ SetAlphaFrame(heap[i], heap'[i])
        /\ SetAlphaNothingElse(heap[i], heap'[i])

\* C26: setAlpha(x, hint) on a valid color changes only the alpha, to x clamped to [0,1], and
\* the style hint, to hint when it is NUMBER or PERCENT and to PERCENT otherwise: r, g, b,
\* validity, error and source text are after the call what they were before
C26_SetAlphaFrame == [][SetAlphaStep => SetAlphaOnValid(last'.at)]_vars

SetAlphaOnNumeric(i) ==
    heap[i].valid /\ ~IsNaN(heap[i].r) /\ ~IsNaN(heap[i].g) /\ ~IsNaN(heap[i].b) =>
        /\ SetAlphaEffect(heap[i], heap'[i], last'.x, last'.hint)
        /\ SetAlphaFrame(heap[i], heap'[i])
        /\ SetAlphaNothingElse(heap[i], heap'[i])

\* the same for the valid colors whose r, g and b are numbers
C26_SetAlphaFrameOfNumeric == [][SetAlphaStep => SetAlphaOnNumeric(last'.at)]_vars

(***************************************************************************)
(* C27: no operation other than setAlpha changes a color it is given.      *)
(***************************************************************************)
\* the step is a call of setAlpha, on a color the callers hold or on an entry of the array the
\* last palette call returned
SetAlphaCall == calls' = calls + 1 /\ last'.op \in {"setAlpha", "setAlphaEntry"}

\* every color the callers hold has after the step the fields it had before
HeldUnchanged ==
    /\ Len(heap') >= Len(heap)
    /\ \A i \in DOMAIN heap : heap'[i] = heap[i]

\* the array the last palette call returned is as it was, or a palette call has returned a new one
ArrayUnchanged == pal' = pal \/ (last'.op = pal'.kind /\ calls' = calls + 1)

PendingRead == \E k \in DOMAIN readers : readers[k].readyState = "LOADING"

\* every read has ended with the text of a theme
ThemesRead ==
    \A k \in DOMAIN readers :
        /\ readers[k].readyState = "DONE"
        /\ readers[k].error = Null
        /\ readers[k].file.content.kind = "xml"

\* two theme files were picked one after the other, the input holds the second, and all reads
\* have ended
TwoThemesRead ==
    /\ Len(readers) = 2
    /\ themeFile # Null
    /\ themeFile = readers[2].file
    /\ ThemesRead

\* the document, the items and the name are those of file
AllOf(file) ==
    /\ themeFileDoc = parseGenericThemeFile(file.content).doc
    /\ themeItems = sortByName(parseGenericThemeFile(file.content).items)
    /\ originalThemeFileName = onchange_originalThemeFileName(file.name, onchange_nameParts(file.name))

\* the download is the document of file under the name of file
ExportOf(file) ==
    ran.op = "exportXml" =>
        ran.download =
            [filename |-> onchange_originalThemeFileName(file.name, onchange_nameParts(file.name)),
             xml |-> parseGenericThemeFile(file.content).doc]

\* C28: when two theme files are picked one after the other and their reads end in either
\* order, then once no read is pending themeFileDoc, themeItems and originalThemeFileName all
\* come from the file picked last, and exportXml names the download after the document it
\* serializes
C28_SameFile == TwoThemesRead => AllOf(themeFile) /\ ExportOf(themeFile)

\* the same when the read of the first file ends before the second file is picked: a state
\* with one reader, whose read has ended
C28_SameFileOfOne ==
    (Len(readers) = 1 /\ themeFile # Null /\ themeFile = readers[1].file /\ ThemesRead)
        => AllOf(themeFile) /\ ExportOf(themeFile)

(***************************************************************************)
(* C29: the item and the document after updateItemColor.                   *)
(***************************************************************************)
\* the item of the last updateItemColor and the text its element carries
UpdatedItem == themeItems[ran.item]

WrittenText == themeFileDoc.elements[UpdatedItem.el].value

\* the last handler was an updateItemColor that returned true
UpdateSucceeded == ran.op = "updateItemColor" /\ ran.ret

\* text parses to a color whose RGB value is hex
ParsesTo(text, hex) == parseColorString(text) # Null /\ parseColorString(text).hex = hex

\* the text written is the original string of the item and parses back to the swatch shown,
\* and the alpha of the item is that of its color
Consistent ==
    /\ WrittenText = UpdatedItem.colorInfo.originalString
    /\ ParsesTo(WrittenText, UpdatedItem.currentColorHex)
    /\ UpdatedItem.colorInfo.alpha = UpdatedItem.colorInfo.goatColor.a

UpdatedConsistent == UpdateSucceeded => Consistent

\* a step of updateItemColor that returns false leaves the items and the document alone
FailedUpdate == handled' = handled + 1 /\ ran'.op = "updateItemColor" /\ ~ran'.ret

FailedUpdateFrame == FailedUpdate => themeItems' = themeItems /\ themeFileDoc' = themeFileDoc

\* C29: after every successful updateItemColor(item, s), for every original family of the item,
\* the text written into the theme document equals item.colorInfo.originalString and parses back
\* to the RGB value item.currentColorHex, and item.colorInfo.alpha equals
\* item.colorInfo.goatColor.a; after a failed call the item and the document are unchanged and
\* false is returned
C29_UpdateItemColor == []UpdatedConsistent /\ [][FailedUpdateFrame]_vars

\* the family an item keeps writing in
WritesRounded == UpdatedItem.colorInfo.inputFormat \in {"hsl", "oklch"}

\* the same for the items that are written as hex, as rgb or in the form of the text typed when
\* that is hex or rgb
C29_UpdateItemColorOfBytes ==
    [](UpdateSucceeded /\ ~WritesRounded => Consistent) /\ [][FailedUpdateFrame]_vars

(***************************************************************************)
(* C30: the selected color and the palette.                                *)
(***************************************************************************)
\* hex is the hex of an entry of the palette p
InPalette(p, hex) == \E k \in DOMAIN p : p[k].hex = hex

\* hex is one of the 16 built-in grays
IsGray(hex) == \E g \in grayHexes : hex = toUpperCase(g)

\* selectedPaletteColor is null or has the hex of an entry of the palette or of a gray
SelectedIsShown ==
    \/ selectedPaletteColor = Null
    \/ InPalette(palette, selectedPaletteColor.hex)
    \/ IsGray(selectedPaletteColor.hex)

\* a step of addCustomColor adds at most one entry, at the end, whose hex no entry had
AddsNoDuplicate ==
    (handled' = handled + 1 /\ ran'.op = "addCustomColor") =>
        \/ palette' = palette
        \/ /\ Len(palette') = Len(palette) + 1
           /\ SubSeq(palette', 1, Len(palette)) = palette
           /\ ~InPalette(palette, palette'[Len(palette')].hex)

\* a step of deleteColorFromPalette(hex) leaves no entry with that hex and every other entry
DeletesEvery ==
    (handled' = handled + 1 /\ ran'.op = "deleteColorFromPalette") =>
        /\ ~InPalette(palette', ran'.hex)
        /\ palette' = SelectSeq(palette, LAMBDA p : p.hex # ran'.hex)

\* a step of bulk assign that changes an item applies a color that is shown
AssignsShown ==
    (handled' = handled + 1 /\ ran'.op = "bulkAssignBtnElement.onclick" /\ themeItems' # themeItems)
        => SelectedIsShown

\* C30: in every state reached by palette import, addCustomColor, deleteColorFromPalette and
\* swatch clicks, selectedPaletteColor is null or has the hex of an entry of the palette or of
\* one of the 16 built-in grays, so that bulk assign never applies a color that was deleted or
\* replaced; addCustomColor never adds an entry whose hex an entry has, and
\* deleteColorFromPalette(hex) removes every entry with that hex
C30_SelectedIsShown ==
    []SelectedIsShown /\ [][AddsNoDuplicate /\ DeletesEvery /\ AssignsShown]_vars

\* what holds of it: addCustomColor adds no duplicate and deleteColorFromPalette removes every
\* entry with the hex
C30_AddAndDelete == [][AddsNoDuplicate /\ DeletesEvery]_vars
====
